---- MODULE Spec2Model ----
(***************************************************************************)
(* Relay server of Terminal-Tool (src/src/server.js, createRelayServer):   *)
(* the registry of hosts, the admission of host and client WebSocket       *)
(* connections, the per-role message routing, the close handling and the   *)
(* heartbeat sweep.                                                        *)
(*                                                                         *)
(* A step of the model is one callback of the Node.js event loop run to    *)
(* completion.  While the callback runs, `event` names it and its inputs   *)
(* and `out` collects, in order, the effects it produces (frames written,  *)
(* sockets closed).  The turn then ends (Flush): the effects leave the     *)
(* process and the next callback may run.                                  *)
(***************************************************************************)
EXTENDS Integers, Sequences, FiniteSets, TLC

\* ---------------------------------------------------------------- bounds
\* connection attempts the relay sees in one run
MaxSockets == 3
\* successful POST /api/register-host requests in one run
MaxRecords == 2

\* ---------------------------------------------------------------- values
SocketIds == 1..MaxSockets
RecordIds == 1..MaxRecords
\* clientId values: 0 is "absent/falsy"; 1.. are the UUIDs the relay mints
ClientIds == 1..MaxSockets
NoSocket == 0
NoRecord == 0
NoClientId == 0

\* the hostIds of a run; a caller supplies one, or randomUUID() mints one nobody holds
HostIds == {"h1"}
\* "" stands for a missing (undefined / empty) request field
Usernames == {"alice", "bob"}
Passwords == {"pw1", "pw2"}
Paths == {"/ws/host", "/ws/client", "/other"}
PayloadData == {"a"}

\* types a frame may carry: those some role may send, and two nobody may send
\* ("" is a JSON value without a type property)
RoutedTypes == {"input", "resize", "output", "exit", "system"}
OtherTypes == {"command", ""}
\* clientId property of a frame: absent, or one of two identifiers
PayloadClientIds == {NoClientId, 1, 2}
\* what a peer can put on the wire:
\*   garbage : text JSON.parse rejects
\*   null    : the JSON text `null` (parses, but has no properties)
\*   json    : any other JSON value; type/clientId/data are its properties
Frames ==
    {[kind |-> "garbage", type |-> "", clientId |-> NoClientId, data |-> ""],
     [kind |-> "null", type |-> "", clientId |-> NoClientId, data |-> ""]}
    \cup [kind : {"json"}, type : RoutedTypes, clientId : PayloadClientIds, data : PayloadData]
    \cup [kind : {"json"}, type : OtherTypes, clientId : {NoClientId}, data : PayloadData]
NoFrame == [kind |-> "none", type |-> "", clientId |-> NoClientId, data |-> ""]

VARIABLES
    registeredHosts,  \* hostId -> reference of the record object stored in the Map
    records,          \* heap of record objects: username, password, hostSocket
    clientSockets,    \* hostId -> (clientId -> socket): the Map shared by a hostId's records
    sockets,          \* per connection: readyState, role, captured record, clientId, isAlive
    nextSocket,       \* next connection the WebSocketServer accepts
    nextRecord,       \* next record object to allocate
    nextClientId,     \* next value randomUUID() returns for a client
    crashed,          \* the relay process died of an uncaught exception
    event,            \* the callback that ran last and its inputs
    out,              \* the effects of the callback that ran last, in order
    \* --- the relay of Server.ts (one-shot protocol, one client per hostId)
    tsRegisteredHosts, \* Map hostId -> record object (a record id)
    tsRecords,        \* record objects: credentials, hostSocket, clientSocket
    tsSockets,        \* per connection: readyState, role, captured record
    tsNextSocket,     \* next connection the WebSocketServer accepts
    tsNextRecord,     \* next record object to allocate
    tsCrashed,        \* the relay process died of an uncaught exception
    tsEvent,          \* the callback that ran last and its inputs
    tsOut,            \* the effects of the callback that ran last, in order
    \* --- the host CLI's command policy (cli.js)
    command,          \* the command text handed to evaluateCommand
    policy,           \* the host policy: strictCwd, whitelist, warnDangerous
    verdict,          \* what evaluateCommand returned for them
    \* --- the host session of cli.js (attachHostShell)
    shellPlan,        \* the shell candidates resolveShellPlan returned, in order
    runningCommands,  \* Map requestId -> ChildProcess of the one-shot command
    children,         \* the ChildProcess objects spawn() returned
    nextChild,        \* next ChildProcess spawn() allocates
    ptySession,       \* the interactive session object: proc, and whether startPty ran
    servedClient,     \* history: the client whose input or resize reached proc first
    readyState,       \* ws.readyState of the host's relay connection
    exited,           \* whether and how the host process has ended
    hostEvent,        \* the callback that ran last and its inputs
    hostOut,          \* the effects of the callback that ran last, in order
    \* --- resolveShellPlan of cli.js
    shellOverride,    \* the --shell option, "" when it was not given
    IS_WINDOWS,       \* process.platform === "win32"
    installed,        \* the shell names `which` / `where` finds
    finalList         \* the candidate names resolveShellPlan settled on

relayVars == <<registeredHosts, records, clientSockets, sockets, nextSocket, nextRecord,
               nextClientId, crashed, event, out>>
tsVars == <<tsRegisteredHosts, tsRecords, tsSockets, tsNextSocket, tsNextRecord, tsCrashed,
            tsEvent, tsOut>>
cliVars == <<command, policy, verdict>>
hostVars == <<shellPlan, runningCommands, children, nextChild, ptySession, servedClient,
              readyState, exited, hostEvent, hostOut>>
shellVars == <<shellOverride, IS_WINDOWS, installed, finalList>>
vars == <<relayVars, tsVars, cliVars, hostVars, shellVars>>

\* ---------------------------------------------------------------- helpers
Msg(type, message, clientId, data) ==
    [type |-> type, message |-> message, clientId |-> clientId, data |-> data]

NoMsg == Msg("", "", NoClientId, "")

SendFx(to, m) == [kind |-> "send", to |-> to, msg |-> m, code |-> 0]
CloseFx(to, code, reason) ==
    [kind |-> "close", to |-> to, msg |-> Msg("", reason, NoClientId, ""), code |-> code]
TerminateFx(to) == [kind |-> "terminate", to |-> to, msg |-> NoMsg, code |-> 0]
PingFx(to) == [kind |-> "ping", to |-> to, msg |-> NoMsg, code |-> 0]
HttpFx(status, hostId) ==
    [kind |-> "http", to |-> NoSocket, msg |-> Msg("", hostId, NoClientId, ""), code |-> status]

NoRec == [hostId |-> "", username |-> "", password |-> "", hostSocket |-> NoSocket]
NoSock == [state |-> "none", role |-> "none", rec |-> NoRecord, clientId |-> NoClientId,
           isAlive |-> FALSE]

Ev(op, s, hostId, username, password, path, frame) ==
    [op |-> op, s |-> s, hostId |-> hostId, username |-> username, password |-> password,
     path |-> path, frame |-> frame]

NoEvent == Ev("idle", NoSocket, "", "", "", "", NoFrame)
\* no callback is running
Idle == event = NoEvent

\* socket.readyState === 1
IsOpen(socks, s) == s # NoSocket /\ socks[s].state = "open"

\* safeSend(socket, payload): the frame goes out only on an open socket
safeSend(socks, s, payload) ==
    IF IsOpen(socks, s) THEN <<SendFx(s, payload)>> ELSE <<>>

\* closeWithError(socket, message): effects; the socket then is CLOSING
closeWithError(socks, s, message) ==
    safeSend(socks, s, Msg("error", message, NoClientId, "")) \o <<CloseFx(s, 1008, message)>>

\* (variant: the password is not compared)
verifyUsernameOnly(hostId, username, password) ==
    IF hostId \notin HostIds \/ registeredHosts[hostId] = NoRecord
    THEN [ok |-> FALSE, error |-> "unknown hostId", record |-> NoRecord]
    ELSE LET r == registeredHosts[hostId] IN
         IF records[r].username # username
         THEN [ok |-> FALSE, error |-> "invalid credentials", record |-> NoRecord]
         ELSE [ok |-> TRUE, error |-> "", record |-> r]

\* verify(hostId, username, password)
verify(hostId, username, password) ==
    IF hostId \notin HostIds \/ registeredHosts[hostId] = NoRecord
    THEN [ok |-> FALSE, error |-> "unknown hostId", record |-> NoRecord]
    ELSE LET r == registeredHosts[hostId] IN
         IF records[r].username # username \/ records[r].password # password
         THEN [ok |-> FALSE, error |-> "invalid credentials", record |-> NoRecord]
         ELSE [ok |-> TRUE, error |-> "", record |-> r]

PathRole(path) ==
    IF path = "/ws/host" THEN "host" ELSE IF path = "/ws/client" THEN "client" ELSE "none"

\* keys of a clientSockets Map, and its entries that a for-of loop prunes
Keys(map) == {id \in ClientIds : map[id] # NoSocket}
EmptyMap == [id \in ClientIds |-> NoSocket]
Pruned(socks, map) == [id \in ClientIds |-> IF IsOpen(socks, map[id]) THEN map[id] ELSE NoSocket]

\* the ids of a set in Map iteration order (insertion order = minting order)
RECURSIVE InOrder(_)
InOrder(S) ==
    IF S = {} THEN <<>>
    ELSE LET m == CHOOSE x \in S : \A y \in S : x <= y IN <<m>> \o InOrder(S \ {m})

\* (variant: every entry of the Map is replayed, whatever its readyState)
ReplayedAlways(socks, client) == client # NoSocket

\* client.readyState === 1: the entry is replayed, otherwise deleted and skipped
Replayed(socks, client) == IsOpen(socks, client)

\* notices of the host-admission loop over record.clientSockets.entries()
RECURSIVE HostOnlineNotices(_, _, _, _)
HostOnlineNotices(socks, map, host, ids) ==
    IF ids = <<>> THEN <<>>
    ELSE LET id == Head(ids) IN
         (IF Replayed(socks, map[id])
          THEN safeSend(socks, map[id], Msg("system", "host is online", id, ""))
               \o safeSend(socks, host, Msg("system", "client connected", id, ""))
          ELSE <<>>)
         \o HostOnlineNotices(socks, map, host, Tail(ids))

\* notices of the host-close loop over record.clientSockets.entries()
RECURSIVE HostDisconnectedNotices(_, _, _)
HostDisconnectedNotices(socks, map, ids) ==
    IF ids = <<>> THEN <<>>
    ELSE LET id == Head(ids) IN
         safeSend(socks, map[id], Msg("system", "host disconnected", id, ""))
         \o HostDisconnectedNotices(socks, map, Tail(ids))

\* ---------------------------------------------------------------- initial state
RelayInit ==
    /\ registeredHosts = [h \in HostIds |-> NoRecord]
    /\ records = [r \in RecordIds |-> NoRec]
    /\ clientSockets = [h \in HostIds |-> EmptyMap]
    /\ sockets = [s \in SocketIds |-> NoSock]
    /\ nextSocket = 1
    /\ nextRecord = 1
    /\ nextClientId = 1
    /\ crashed = FALSE
    /\ event = NoEvent
    /\ out = <<>>

\* ---------------------------------------------------------------- POST /api/register-host
\* hostId || randomUUID(): a missing hostId is replaced by an id nobody holds yet
ResolveHostId(hostId) ==
    IF hostId # "" THEN hostId
    ELSE CHOOSE h \in HostIds : registeredHosts[h] = NoRecord

\* (variant: the new record starts without a host socket)
StoredRecordFresh(resolvedHostId, username, password, existing) ==
    [hostId |-> resolvedHostId, username |-> username, password |-> password,
     hostSocket |-> NoSocket]

\* the object registeredHosts.set stores: new credentials, hostSocket: existing?.hostSocket
StoredRecord(resolvedHostId, username, password, existing) ==
    [hostId |-> resolvedHostId, username |-> username, password |-> password,
     hostSocket |-> IF existing # NoRecord THEN records[existing].hostSocket ELSE NoSocket]

RegisterHost(hostId, username, password) ==
    /\ Idle
    /\ ~crashed
    /\ hostId = "" => \E h \in HostIds : registeredHosts[h] = NoRecord
    /\ event' = Ev("register", NoSocket, hostId, username, password, "", NoFrame)
    /\ IF username = "" \/ password = ""
       THEN /\ out' = <<HttpFx(400, "")>>
            /\ UNCHANGED <<registeredHosts, records, nextRecord>>
       ELSE LET resolvedHostId == ResolveHostId(hostId)
                existing == registeredHosts[resolvedHostId]
            IN IF existing # NoRecord /\ records[existing].username # username
               THEN /\ out' = <<HttpFx(409, resolvedHostId)>>
                    /\ UNCHANGED <<registeredHosts, records, nextRecord>>
               ELSE /\ nextRecord <= MaxRecords
                    \* a NEW record object replaces the stored one; it copies the
                    \* host socket and shares the clientSockets Map of `existing`
                    /\ records' = [records EXCEPT ![nextRecord] =
                          StoredRecord(resolvedHostId, username, password, existing)]
                    /\ registeredHosts' = [registeredHosts EXCEPT ![resolvedHostId] = nextRecord]
                    /\ nextRecord' = nextRecord + 1
                    /\ out' = <<HttpFx(200, resolvedHostId)>>
    /\ UNCHANGED <<clientSockets, sockets, nextSocket, nextClientId, crashed>>
    /\ UNCHANGED <<tsVars, cliVars, hostVars, shellVars>>

\* ---------------------------------------------------------------- wss.on("connection")
\* a connection that is turned away: error frame, close(1008), no handlers installed
Rejected(s, message) ==
    /\ out' = closeWithError([sockets EXCEPT ![s].state = "open"], s, message)
    /\ sockets' = [sockets EXCEPT ![s] = [NoSock EXCEPT !.state = "closing"]]
    /\ UNCHANGED <<records, clientSockets, nextClientId>>

\* (variant: the superseded socket is told but never closed)
SupersededStaysOpen(socks, old) == socks

\* record.hostSocket.close(): the superseded socket leaves OPEN at once
Superseded(socks, old) == [socks EXCEPT ![old].state = "closing"]

\* (variant: close first; the notice then finds the socket no longer open)
EvictFxCloseFirst(socks, old) ==
    <<CloseFx(old, 0, "")>>
    \o safeSend(Superseded(socks, old), old,
                Msg("system", "another host session connected, closing this one", NoClientId, ""))

\* the notice to the superseded host, then its close
EvictFx(socks, old) ==
    safeSend(socks, old,
             Msg("system", "another host session connected, closing this one", NoClientId, ""))
    \o <<CloseFx(old, 0, "")>>

\* role === "host": evict a live predecessor, install, replay the live clients
AdmitHost(s, r) ==
    LET hostId == records[r].hostId
        old == records[r].hostSocket
        evict == IsOpen(sockets, old)
        opened == [sockets EXCEPT ![s] = [state |-> "open", role |-> "host", rec |-> r,
                                          clientId |-> NoClientId, isAlive |-> TRUE]]
        socks == IF evict THEN Superseded(opened, old) ELSE opened
        map == clientSockets[hostId]
    IN /\ out' = (IF evict THEN EvictFx(opened, old) ELSE <<>>)
                 \o safeSend(socks, s, Msg("system", "host connected", NoClientId, ""))
                 \o HostOnlineNotices(socks, map, s, InOrder(Keys(map)))
       /\ sockets' = socks
       /\ records' = [records EXCEPT ![r].hostSocket = s]
       /\ clientSockets' = [clientSockets EXCEPT ![hostId] = Pruned(socks, map)]
       /\ UNCHANGED nextClientId

\* (variant: only the presence of a host socket is tested, not its readyState)
HostOfflineNullOnly(socks, hostSocket) == hostSocket = NoSocket

\* !record.hostSocket || record.hostSocket.readyState !== 1 (client admission)
HostOffline(socks, hostSocket) == ~IsOpen(socks, hostSocket)

\* role === "client": needs a live host socket in the record; mint a clientId
AdmitClient(s, r) ==
    LET hostId == records[r].hostId
        hostSocket == records[r].hostSocket
        clientId == nextClientId
        socks == [sockets EXCEPT ![s] = [state |-> "open", role |-> "client", rec |-> r,
                                         clientId |-> clientId, isAlive |-> TRUE]]
    IN IF HostOffline(sockets, hostSocket)
       THEN /\ out' = closeWithError([sockets EXCEPT ![s].state = "open"], s, "host is offline")
            \* randomUUID() was already called for this connection
            /\ sockets' = [sockets EXCEPT ![s] = [NoSock EXCEPT !.state = "closing"]]
            /\ nextClientId' = nextClientId + 1
            /\ UNCHANGED <<records, clientSockets>>
       ELSE /\ clientSockets' = [clientSockets EXCEPT ![hostId][clientId] = s]
            /\ out' = safeSend(socks, s, Msg("system", "connected to host terminal", clientId, ""))
                      \o safeSend(socks, hostSocket,
                                  Msg("system", "client connected", clientId, ""))
            /\ sockets' = socks
            /\ nextClientId' = nextClientId + 1
            /\ UNCHANGED records

Connection(path, hostId, username, password) ==
    /\ Idle
    /\ ~crashed
    /\ nextSocket <= MaxSockets
    /\ LET s == nextSocket
           role == PathRole(path)
           auth == verify(hostId, username, password)
       IN /\ event' = Ev("connection", s, hostId, username, password, path, NoFrame)
          /\ nextSocket' = nextSocket + 1
          /\ IF role = "none" THEN Rejected(s, "invalid websocket path")
             ELSE IF hostId = "" \/ username = "" \/ password = ""
                  THEN Rejected(s, "missing credentials")
             ELSE IF ~auth.ok THEN Rejected(s, auth.error)
             ELSE IF role = "host" THEN AdmitHost(s, auth.record)
             ELSE AdmitClient(s, auth.record)
    /\ UNCHANGED <<registeredHosts, nextRecord, crashed>>
    /\ UNCHANGED <<tsVars, cliVars, hostVars, shellVars>>

\* ---------------------------------------------------------------- socket.on("message")
\* the handlers exist only on admitted connections; frames still arrive on a
\* socket the relay has asked to close until the peer answers the close
Receiving(s) == sockets[s].role # "none" /\ sockets[s].state \in {"open", "closing"}

\* (variant: the one-shot protocol's command type let through as well)
ClientAllowedWithCommand == {"input", "resize", "command"}

ClientAllowed == {"input", "resize"}
HostAllowed == {"output", "exit", "system"}

\* (variant: { clientId, ...message }: a clientId in the payload wins)
AnnotatePayloadWins(frame, clientId) ==
    Msg(frame.type, "", IF frame.clientId # NoClientId THEN frame.clientId ELSE clientId,
        frame.data)

\* { ...message, clientId }: the relay's clientId replaces the payload's
Annotate(frame, clientId) == Msg(frame.type, "", clientId, frame.data)
\* a host frame is forwarded as it is
Verbatim(frame) == Msg(frame.type, "", frame.clientId, frame.data)

\* (variant: only the presence of a host socket is tested, not its readyState)
HostDisconnectedNullOnly(socks, hostSocket) == hostSocket = NoSocket

\* !record.hostSocket || record.hostSocket.readyState !== 1 (client message)
HostDisconnected(socks, hostSocket) == ~IsOpen(socks, hostSocket)

\* (variant: the single-client relay, which sends to the one client it knows)
TargetLoneClient(map, targetClientId) ==
    IF \A id \in ClientIds : map[id] = NoSocket THEN NoSocket
    ELSE map[CHOOSE id \in ClientIds : map[id] # NoSocket /\
                 \A other \in ClientIds : map[other] # NoSocket => id <= other]

\* record.clientSockets.get(targetClientId)
Target(map, targetClientId) ==
    IF targetClientId \in ClientIds THEN map[targetClientId] ELSE NoSocket

\* (variant: the stale entry is left in the Map)
DeleteNothing(map, targetClientId) == map

\* record.clientSockets.delete(targetClientId)
Delete(map, targetClientId) == [map EXCEPT ![targetClientId] = NoSocket]

ClientMessage(s, frame) ==
    LET hostSocket == records[sockets[s].rec].hostSocket IN
    /\ out' = IF frame.type \notin ClientAllowed
              THEN safeSend(sockets, s,
                       Msg("error", "client can only send type=input|resize", NoClientId, ""))
              ELSE IF HostDisconnected(sockets, hostSocket)
              THEN safeSend(sockets, s, Msg("error", "host disconnected", NoClientId, ""))
              ELSE safeSend(sockets, hostSocket, Annotate(frame, sockets[s].clientId))
    /\ UNCHANGED clientSockets

HostMessage(s, frame) ==
    LET hostId == records[sockets[s].rec].hostId
        targetClientId == frame.clientId
        target == Target(clientSockets[hostId], targetClientId)
    IN IF frame.type \notin HostAllowed
       THEN /\ out' = safeSend(sockets, s,
                          Msg("error", "host sent unsupported message type", NoClientId, ""))
            /\ UNCHANGED clientSockets
       ELSE IF targetClientId = NoClientId
       THEN /\ out' = <<>>
            /\ UNCHANGED clientSockets
       ELSE IF ~IsOpen(sockets, target)
       THEN /\ out' = <<>>
            /\ clientSockets' = [clientSockets EXCEPT
                                    ![hostId] = Delete(clientSockets[hostId], targetClientId)]
       ELSE /\ out' = safeSend(sockets, target, Verbatim(frame))
            /\ UNCHANGED clientSockets

Message(s, frame) ==
    /\ Idle
    /\ ~crashed
    /\ Receiving(s)
    /\ event' = Ev("message", s, "", "", "", "", frame)
    /\ IF frame.kind = "garbage"
       THEN \* JSON.parse throws, the catch answers
            /\ out' = safeSend(sockets, s, Msg("error", "invalid JSON payload", NoClientId, ""))
            /\ UNCHANGED <<registeredHosts, records, clientSockets, sockets, crashed>>
       ELSE IF frame.kind = "null"
       THEN \* message is null: reading message.type throws outside any try/catch,
            \* the exception is uncaught and ends the process
            \* with the process go its registry and every connection it held
            /\ crashed' = TRUE
            /\ out' = <<>>
            /\ registeredHosts' = [h \in HostIds |-> NoRecord]
            /\ records' = [r \in RecordIds |-> NoRec]
            /\ clientSockets' = [h \in HostIds |-> EmptyMap]
            /\ sockets' = [x \in SocketIds |-> NoSock]
       ELSE /\ IF sockets[s].role = "client" THEN ClientMessage(s, frame)
               ELSE HostMessage(s, frame)
            /\ UNCHANGED <<registeredHosts, records, sockets, crashed>>
    /\ UNCHANGED <<nextSocket, nextRecord, nextClientId>>
    /\ UNCHANGED <<tsVars, cliVars, hostVars, shellVars>>

\* ---------------------------------------------------------------- socket.on("pong")
Pong(s) ==
    /\ Idle
    /\ ~crashed
    /\ sockets[s].role # "none"
    /\ sockets[s].state = "open"
    /\ sockets' = [sockets EXCEPT ![s].isAlive = TRUE]
    /\ event' = Ev("pong", s, "", "", "", "", NoFrame)
    /\ out' = <<>>
    /\ UNCHANGED <<registeredHosts, records, clientSockets, nextSocket, nextRecord,
                   nextClientId, crashed>>
    /\ UNCHANGED <<tsVars, cliVars, hostVars, shellVars>>

\* ---------------------------------------------------------------- the peer goes away
\* the peer sends a close frame or the transport breaks: readyState leaves OPEN,
\* the "close" event follows in a later callback
PeerClose(s) ==
    /\ Idle
    /\ ~crashed
    /\ sockets[s].state = "open"
    /\ sockets' = [sockets EXCEPT ![s].state = "dead"]
    /\ event' = Ev("peerclose", s, "", "", "", "", NoFrame)
    /\ out' = <<>>
    /\ UNCHANGED <<registeredHosts, records, clientSockets, nextSocket, nextRecord,
                   nextClientId, crashed>>
    /\ UNCHANGED <<tsVars, cliVars, hostVars, shellVars>>

\* ---------------------------------------------------------------- socket.on("close")
HostClose(s, closed) ==
    LET r == sockets[s].rec
        hostId == records[r].hostId
        map == clientSockets[hostId]
    IN IF records[r].hostSocket = s
       THEN /\ records' = [records EXCEPT ![r].hostSocket = NoSocket]
            /\ clientSockets' = [clientSockets EXCEPT ![hostId] = Pruned(closed, map)]
            /\ out' = HostDisconnectedNotices(closed, map, InOrder(Keys(map)))
       ELSE /\ out' = <<>>
            /\ UNCHANGED <<records, clientSockets>>

ClientClose(s, closed) ==
    LET r == sockets[s].rec
        hostId == records[r].hostId
        clientId == sockets[s].clientId
    IN /\ clientSockets' = [clientSockets EXCEPT ![hostId][clientId] = NoSocket]
       /\ out' = safeSend(closed, records[r].hostSocket,
                          Msg("system", "client disconnected", clientId, ""))
       /\ UNCHANGED records

CloseEvent(s) ==
    /\ Idle
    /\ ~crashed
    /\ sockets[s].state \in {"closing", "dead"}
    \* the handlers' closure is not used again once "close" has run
    /\ LET closed == [sockets EXCEPT ![s] = [NoSock EXCEPT !.state = "closed"]] IN
       /\ sockets' = closed
       /\ IF sockets[s].role = "host" THEN HostClose(s, closed)
          ELSE IF sockets[s].role = "client" THEN ClientClose(s, closed)
          ELSE /\ out' = <<>>
               /\ UNCHANGED <<records, clientSockets>>
    /\ event' = Ev("close", s, "", "", "", "", NoFrame)
    /\ UNCHANGED <<registeredHosts, nextSocket, nextRecord, nextClientId, crashed>>
    /\ UNCHANGED <<tsVars, cliVars, hostVars, shellVars>>

\* ---------------------------------------------------------------- heartbeat (setInterval)
\* wss.clients: every accepted socket whose "close" event has not run yet
WssClients == {s \in SocketIds : sockets[s].state \in {"open", "closing", "dead"}}

\* (variant: a probed socket is not marked unanswered)
SweptNoMark(socket) ==
    IF ~socket.isAlive THEN [socket EXCEPT !.state = "dead"] ELSE socket

\* the forEach body: terminate() a socket whose isAlive is false, else clear isAlive
Swept(socket) ==
    IF ~socket.isAlive THEN [socket EXCEPT !.state = "dead"]
    ELSE [socket EXCEPT !.isAlive = FALSE]

RECURSIVE SweepFx(_)
SweepFx(ids) ==
    IF ids = <<>> THEN <<>>
    ELSE <<IF sockets[Head(ids)].isAlive THEN PingFx(Head(ids)) ELSE TerminateFx(Head(ids))>>
         \o SweepFx(Tail(ids))

heartbeat ==
    /\ Idle
    /\ ~crashed
    /\ sockets' = [s \in SocketIds |->
                      IF s \notin WssClients THEN sockets[s] ELSE Swept(sockets[s])]
    /\ out' = SweepFx(InOrder(WssClients))
    /\ event' = Ev("heartbeat", NoSocket, "", "", "", "", NoFrame)
    /\ UNCHANGED <<registeredHosts, records, clientSockets, nextSocket, nextRecord,
                   nextClientId, crashed>>
    /\ UNCHANGED <<tsVars, cliVars, hostVars, shellVars>>

\* ---------------------------------------------------------------- end of an event-loop turn
\* the callback has returned: what it wrote is on its way, the next callback may run
Flush ==
    /\ ~Idle
    /\ event' = NoEvent
    /\ out' = <<>>
    /\ UNCHANGED <<registeredHosts, records, clientSockets, sockets, nextSocket, nextRecord,
                   nextClientId, crashed>>
    /\ UNCHANGED <<tsVars, cliVars, hostVars, shellVars>>

\* ================================================================ Server.ts
\* The TypeScript relay: one-shot protocol, one host socket and one client
\* socket per record.
TsTypes == {"command", "cancel", "input", "resize", "stdout", "bogus"}
RequestIds == {"", "r1"}
MintedRequestId == "minted"

\* what a peer can send: text that is not JSON, the JSON text null, or an object
\* with a type, a command, a requestId and a data field (data/cols/rows)
TsFrame(kind, type, cmd, requestId, data) ==
    [kind |-> kind, type |-> type, command |-> cmd, requestId |-> requestId, data |-> data]
TsNoFrame == TsFrame("none", "", "", "", "")
TsFrames ==
    {TsFrame("garbage", "", "", "", ""), TsFrame("null", "", "", "", "")}
    \cup {TsFrame("json", "command", "ls", id, "") : id \in RequestIds}
    \cup {TsFrame("json", "cancel", "", id, "") : id \in RequestIds}
    \cup {TsFrame("json", type, "", "", "a") : type \in {"input", "resize", "bogus"}}
    \cup {TsFrame("json", "stdout", "", "r1", "a")}

TsMsg(type, message, cmd, requestId, data) ==
    [type |-> type, message |-> message, command |-> cmd, requestId |-> requestId,
     data |-> data]
TsSystem(message) == TsMsg("system", message, "", "", "")
TsError(message) == TsMsg("error", message, "", "", "")
TsCloseFx(to, code, reason) ==
    [kind |-> "close", to |-> to, msg |-> TsMsg("", reason, "", "", ""), code |-> code]

TsNoRec == [hostId |-> "", username |-> "", password |-> "", hostSocket |-> NoSocket,
            clientSocket |-> NoSocket]
TsNoSock == [state |-> "none", role |-> "none", rec |-> NoRecord, isAlive |-> FALSE]

TsEv(op, s, path, frame) == [op |-> op, s |-> s, path |-> path, frame |-> frame]
TsNoEvent == TsEv("idle", NoSocket, "", TsNoFrame)
TsIdle == tsEvent = TsNoEvent

TsCloseWithError(socks, s, message) ==
    safeSend(socks, s, TsError(message)) \o <<TsCloseFx(s, 1008, message)>>

TsVerify(hostId, username, password) ==
    IF hostId \notin HostIds \/ tsRegisteredHosts[hostId] = NoRecord
    THEN [ok |-> FALSE, error |-> "unknown hostId", record |-> NoRecord]
    ELSE LET r == tsRegisteredHosts[hostId] IN
         IF tsRecords[r].username # username \/ tsRecords[r].password # password
         THEN [ok |-> FALSE, error |-> "invalid credentials", record |-> NoRecord]
         ELSE [ok |-> TRUE, error |-> "", record |-> r]

TsInit ==
    /\ tsRegisteredHosts = [h \in HostIds |-> NoRecord]
    /\ tsRecords = [r \in RecordIds |-> TsNoRec]
    /\ tsSockets = [s \in SocketIds |-> TsNoSock]
    /\ tsNextSocket = 1
    /\ tsNextRecord = 1
    /\ tsCrashed = FALSE
    /\ tsEvent = TsNoEvent
    /\ tsOut = <<>>

\* app.post("/api/register-host")
TsRegisterHost(hostId, username, password) ==
    /\ TsIdle
    /\ ~tsCrashed
    /\ hostId \in HostIds
    /\ tsEvent' = TsEv("register", NoSocket, "", TsNoFrame)
    /\ LET existing == tsRegisteredHosts[hostId] IN
       IF username = "" \/ password = ""
       THEN /\ tsOut' = <<HttpFx(400, "")>>
            /\ UNCHANGED <<tsRegisteredHosts, tsRecords, tsNextRecord>>
       ELSE IF existing # NoRecord /\ tsRecords[existing].username # username
       THEN /\ tsOut' = <<HttpFx(409, hostId)>>
            /\ UNCHANGED <<tsRegisteredHosts, tsRecords, tsNextRecord>>
       ELSE /\ tsNextRecord <= MaxRecords
            /\ tsRecords' = [tsRecords EXCEPT ![tsNextRecord] =
                  [hostId |-> hostId, username |-> username, password |-> password,
                   hostSocket |-> IF existing # NoRecord
                                  THEN tsRecords[existing].hostSocket ELSE NoSocket,
                   clientSocket |-> IF existing # NoRecord
                                    THEN tsRecords[existing].clientSocket ELSE NoSocket]]
            /\ tsRegisteredHosts' = [tsRegisteredHosts EXCEPT ![hostId] = tsNextRecord]
            /\ tsNextRecord' = tsNextRecord + 1
            /\ tsOut' = <<HttpFx(200, hostId)>>
    /\ UNCHANGED <<tsSockets, tsNextSocket, tsCrashed>>
    /\ UNCHANGED <<relayVars, cliVars, hostVars, shellVars>>

\* wss.on("connection")
TsRejected(s, message) ==
    /\ tsOut' = TsCloseWithError([tsSockets EXCEPT ![s].state = "open"], s, message)
    /\ tsSockets' = [tsSockets EXCEPT ![s] = [TsNoSock EXCEPT !.state = "closing"]]
    /\ UNCHANGED tsRecords

TsAdmitHost(s, r) ==
    LET old == tsRecords[r].hostSocket
        evict == IsOpen(tsSockets, old)
        opened == [tsSockets EXCEPT ![s] = [state |-> "open", role |-> "host", rec |-> r,
                                            isAlive |-> TRUE]]
        socks == IF evict THEN [opened EXCEPT ![old].state = "closing"] ELSE opened
    IN /\ tsOut' = (IF evict
                    THEN safeSend(opened, old, TsSystem("another host connected"))
                         \o <<TsCloseFx(old, 0, "")>>
                    ELSE <<>>)
                   \o safeSend(socks, s, TsSystem("host connected"))
                   \o safeSend(socks, tsRecords[r].clientSocket, TsSystem("host is online"))
       /\ tsSockets' = socks
       /\ tsRecords' = [tsRecords EXCEPT ![r].hostSocket = s]

TsAdmitClient(s, r) ==
    LET hostSocket == tsRecords[r].hostSocket
        old == tsRecords[r].clientSocket
        evict == IsOpen(tsSockets, old)
        opened == [tsSockets EXCEPT ![s] = [state |-> "open", role |-> "client", rec |-> r,
                                            isAlive |-> TRUE]]
        socks == IF evict THEN [opened EXCEPT ![old].state = "closing"] ELSE opened
    IN IF ~IsOpen(tsSockets, hostSocket)
       THEN TsRejected(s, "host offline")
       ELSE /\ tsOut' = (IF evict
                         THEN safeSend(opened, old, TsSystem("new client connected"))
                              \o <<TsCloseFx(old, 0, "")>>
                         ELSE <<>>)
                        \o safeSend(socks, s, TsSystem("connected"))
                        \o safeSend(socks, hostSocket, TsSystem("client connected"))
            /\ tsSockets' = socks
            /\ tsRecords' = [tsRecords EXCEPT ![r].clientSocket = s]

TsConnection(path, hostId, username, password) ==
    /\ TsIdle
    /\ ~tsCrashed
    /\ tsNextSocket <= MaxSockets
    /\ LET s == tsNextSocket
           role == PathRole(path)
           auth == TsVerify(hostId, username, password)
       IN /\ tsEvent' = TsEv("connection", s, path, TsNoFrame)
          /\ tsNextSocket' = tsNextSocket + 1
          /\ IF role = "none" THEN TsRejected(s, "invalid websocket path")
             ELSE IF hostId = "" \/ username = "" \/ password = ""
                  THEN TsRejected(s, "missing credentials")
             ELSE IF ~auth.ok THEN TsRejected(s, auth.error)
             ELSE IF role = "host" THEN TsAdmitHost(s, auth.record)
             ELSE TsAdmitClient(s, auth.record)
    /\ UNCHANGED <<tsRegisteredHosts, tsNextRecord, tsCrashed>>
    /\ UNCHANGED <<relayVars, cliVars, hostVars, shellVars>>

\* socket.on("message")
TsClientAllowed == {"command", "cancel", "input", "resize"}
TsHostAllowed == {"stdout", "stderr", "exit", "system", "output"}

\* what the client branch writes to the host for an allowed frame: a command
\* message for type "command", a cancel message for every other allowed type
\* (sentAt, a timestamp, is left out)
TsClientForward(frame) ==
    IF frame.type = "command"
    THEN TsMsg("command", "", frame.command,
               IF frame.requestId # "" THEN frame.requestId ELSE MintedRequestId, "")
    ELSE TsMsg("cancel", "", "", frame.requestId, "")

\* safeSend(record.clientSocket, message): the host's frame as it is
TsVerbatim(frame) == TsMsg(frame.type, "", frame.command, frame.requestId, frame.data)

TsClientMessage(s, frame) ==
    LET hostSocket == tsRecords[tsSockets[s].rec].hostSocket IN
    tsOut' = IF frame.type \notin TsClientAllowed
             THEN safeSend(tsSockets, s, TsError("invalid client type"))
             ELSE IF ~IsOpen(tsSockets, hostSocket)
             THEN safeSend(tsSockets, s, TsError("host disconnected"))
             ELSE safeSend(tsSockets, hostSocket, TsClientForward(frame))

TsHostMessage(s, frame) ==
    tsOut' = IF frame.type \notin TsHostAllowed
             THEN safeSend(tsSockets, s, TsError("invalid host type"))
             ELSE safeSend(tsSockets, tsRecords[tsSockets[s].rec].clientSocket,
                           TsVerbatim(frame))

TsMessage(s, frame) ==
    /\ TsIdle
    /\ ~tsCrashed
    /\ tsSockets[s].role # "none"
    /\ tsSockets[s].state \in {"open", "closing"}
    /\ tsEvent' = TsEv("message", s, "", frame)
    /\ IF frame.kind = "garbage"
       THEN /\ tsOut' = safeSend(tsSockets, s, TsError("invalid JSON"))
            /\ UNCHANGED <<tsRegisteredHosts, tsRecords, tsSockets, tsCrashed>>
       ELSE IF frame.kind = "null"
       THEN \* message is null: message.type throws outside the try/catch
            /\ tsCrashed' = TRUE
            /\ tsOut' = <<>>
            /\ tsRegisteredHosts' = [h \in HostIds |-> NoRecord]
            /\ tsRecords' = [r \in RecordIds |-> TsNoRec]
            /\ tsSockets' = [x \in SocketIds |-> TsNoSock]
       ELSE /\ IF tsSockets[s].role = "client" THEN TsClientMessage(s, frame)
               ELSE TsHostMessage(s, frame)
            /\ UNCHANGED <<tsRegisteredHosts, tsRecords, tsSockets, tsCrashed>>
    /\ UNCHANGED <<tsNextSocket, tsNextRecord>>
    /\ UNCHANGED <<relayVars, cliVars, hostVars, shellVars>>

\* socket.on("pong")
TsPong(s) ==
    /\ TsIdle
    /\ ~tsCrashed
    /\ tsSockets[s].role # "none"
    /\ tsSockets[s].state = "open"
    /\ tsSockets' = [tsSockets EXCEPT ![s].isAlive = TRUE]
    /\ tsEvent' = TsEv("pong", s, "", TsNoFrame)
    /\ tsOut' = <<>>
    /\ UNCHANGED <<tsRegisteredHosts, tsRecords, tsNextSocket, tsNextRecord, tsCrashed>>
    /\ UNCHANGED <<relayVars, cliVars, hostVars, shellVars>>

\* the peer goes away: readyState leaves OPEN, the "close" event follows
TsPeerClose(s) ==
    /\ TsIdle
    /\ ~tsCrashed
    /\ tsSockets[s].state = "open"
    /\ tsSockets' = [tsSockets EXCEPT ![s].state = "dead"]
    /\ tsEvent' = TsEv("peerclose", s, "", TsNoFrame)
    /\ tsOut' = <<>>
    /\ UNCHANGED <<tsRegisteredHosts, tsRecords, tsNextSocket, tsNextRecord, tsCrashed>>
    /\ UNCHANGED <<relayVars, cliVars, hostVars, shellVars>>

\* socket.on("close")
TsCloseEvent(s) ==
    /\ TsIdle
    /\ ~tsCrashed
    /\ tsSockets[s].state \in {"closing", "dead"}
    /\ LET closed == [tsSockets EXCEPT ![s] = [TsNoSock EXCEPT !.state = "closed"]]
           r == tsSockets[s].rec
           role == tsSockets[s].role
       IN /\ tsSockets' = closed
          /\ IF role = "host" /\ tsRecords[r].hostSocket = s
             THEN /\ tsRecords' = [tsRecords EXCEPT ![r].hostSocket = NoSocket]
                  /\ tsOut' = safeSend(closed, tsRecords[r].clientSocket,
                                       TsSystem("host disconnected"))
             ELSE IF role = "client" /\ tsRecords[r].clientSocket = s
             THEN /\ tsRecords' = [tsRecords EXCEPT ![r].clientSocket = NoSocket]
                  /\ tsOut' = safeSend(closed, tsRecords[r].hostSocket,
                                       TsSystem("client disconnected"))
             ELSE /\ tsOut' = <<>>
                  /\ UNCHANGED tsRecords
    /\ tsEvent' = TsEv("close", s, "", TsNoFrame)
    /\ UNCHANGED <<tsRegisteredHosts, tsNextSocket, tsNextRecord, tsCrashed>>
    /\ UNCHANGED <<relayVars, cliVars, hostVars, shellVars>>

\* heartbeat (setInterval)
TsWssClients == {s \in SocketIds : tsSockets[s].state \in {"open", "closing", "dead"}}

RECURSIVE TsSweepFx(_)
TsSweepFx(ids) ==
    IF ids = <<>> THEN <<>>
    ELSE <<IF tsSockets[Head(ids)].isAlive THEN PingFx(Head(ids)) ELSE TerminateFx(Head(ids))>>
         \o TsSweepFx(Tail(ids))

TsHeartbeat ==
    /\ TsIdle
    /\ ~tsCrashed
    /\ tsSockets' = [s \in SocketIds |->
                        IF s \notin TsWssClients THEN tsSockets[s] ELSE Swept(tsSockets[s])]
    /\ tsOut' = TsSweepFx(InOrder(TsWssClients))
    /\ tsEvent' = TsEv("heartbeat", NoSocket, "", TsNoFrame)
    /\ UNCHANGED <<tsRegisteredHosts, tsRecords, tsNextSocket, tsNextRecord, tsCrashed>>
    /\ UNCHANGED <<relayVars, cliVars, hostVars, shellVars>>

\* the callback has returned
TsFlush ==
    /\ ~TsIdle
    /\ tsEvent' = TsNoEvent
    /\ tsOut' = <<>>
    /\ UNCHANGED <<tsRegisteredHosts, tsRecords, tsSockets, tsNextSocket, tsNextRecord,
                   tsCrashed>>
    /\ UNCHANGED <<relayVars, cliVars, hostVars, shellVars>>

\* ================================================================ cli.js: command policy
\* A command is a sequence of characters; each character is a one-character
\* string, NUL stands for the character U+0000.
MaxWords == 3

NUL == "NUL"
\* stands for the backquote character
BACKTICK == "BACKTICK"
LowerLetters == <<"a", "b", "c", "d", "e", "f", "g", "h", "i", "j", "k", "l", "m",
                  "n", "o", "p", "q", "r", "s", "t", "u", "v", "w", "x", "y", "z">>
UpperLetters == <<"A", "B", "C", "D", "E", "F", "G", "H", "I", "J", "K", "L", "M",
                  "N", "O", "P", "Q", "R", "S", "T", "U", "V", "W", "X", "Y", "Z">>
DigitChars == {"0", "1", "2", "3", "4", "5", "6", "7", "8", "9"}
\* what \s matches and trim() removes, among the characters used here
Whitespace == {" ", "\t", "\n", "\r"}

IsUpper(c) == \E i \in 1..Len(UpperLetters) : UpperLetters[i] = c
IsLetter(c) == IsUpper(c) \/ \E i \in 1..Len(LowerLetters) : LowerLetters[i] = c
\* String.prototype.toLowerCase, character by character
LowerChar(c) ==
    IF IsUpper(c) THEN LowerLetters[CHOOSE i \in 1..Len(UpperLetters) : UpperLetters[i] = c]
    ELSE c
toLowerCase(str) == [i \in 1..Len(str) |-> LowerChar(str[i])]

\* String.prototype.trim
RECURSIVE trimStart(_)
trimStart(str) ==
    IF str # <<>> /\ Head(str) \in Whitespace THEN trimStart(Tail(str)) ELSE str
RECURSIVE trimEnd(_)
trimEnd(str) ==
    IF str # <<>> /\ str[Len(str)] \in Whitespace
    THEN trimEnd(SubSeq(str, 1, Len(str) - 1)) ELSE str
trim(str) == trimEnd(trimStart(str))

\* String.prototype.includes for one character
includes(str, c) == \E i \in 1..Len(str) : str[i] = c

\* the text word stands in str at position i
StartsAt(str, i, word) ==
    /\ i >= 1
    /\ i + Len(word) - 1 <= Len(str)
    /\ SubSeq(str, i, i + Len(word) - 1) = word
\* (^|\s): position i is the start of the text or follows whitespace
AtWordStart(str, i) == i = 1 \/ str[i - 1] \in Whitespace
\* \s+ : positions from..to-1 are whitespace, at least one of them
SpacesBetween(str, from, to) ==
    /\ to > from
    /\ \A k \in from..(to - 1) : str[k] \in Whitespace

\* /^([A-Za-z0-9._-]+)/ : the length of the leading run of token characters
IsBaseChar(c) == IsLetter(c) \/ c \in DigitChars \/ c \in {".", "_", "-"}
RECURSIVE BaseRun(_)
BaseRun(str) ==
    IF str # <<>> /\ IsBaseChar(Head(str)) THEN <<Head(str)>> \o BaseRun(Tail(str)) ELSE <<>>

\* (variant: the case of the token is kept)
commandBaseKeepCase(cmd) == BaseRun(trim(cmd))

\* commandBase(command)
commandBase(cmd) == toLowerCase(BaseRun(trim(cmd)))

\* DANGEROUS_PATTERN = /(;|&&|\|\||`|\$\(|\n|\r)/
DANGEROUS_PATTERN(str) ==
    \E i \in 1..Len(str) :
        \/ str[i] \in {";", BACKTICK, "\n", "\r"}
        \/ StartsAt(str, i, <<"&", "&">>)
        \/ StartsAt(str, i, <<"|", "|">>)
        \/ StartsAt(str, i, <<"$", "(">>)

\* /(^|\s)cd\s+\.\./
CdTraversal(str) ==
    \E i \in 1..Len(str) :
        /\ AtWordStart(str, i)
        /\ StartsAt(str, i, <<"c", "d">>)
        /\ \E j \in (i + 3)..Len(str) :
              SpacesBetween(str, i + 2, j) /\ StartsAt(str, j, <<".", ".">>)

ReadNavigate ==
    {<<"c", "d">>, <<"c", "a", "t">>, <<"l", "e", "s", "s">>, <<"m", "o", "r", "e">>,
     <<"t", "y", "p", "e">>}
\* ([A-Za-z]:\\|\/) at position j
AbsolutePrefixAt(str, j) ==
    \/ StartsAt(str, j, <<"/">>)
    \/ (j <= Len(str) /\ IsLetter(str[j]) /\ StartsAt(str, j + 1, <<":", "\\">>))
\* (variant: the pattern without its i flag)
AbsolutePathAccessCaseSensitive(str) ==
    \E i \in 1..Len(str) :
        /\ AtWordStart(str, i)
        /\ \E word \in ReadNavigate :
              /\ StartsAt(str, i, word)
              /\ \E j \in (i + Len(word) + 1)..Len(str) :
                    SpacesBetween(str, i + Len(word), j) /\ AbsolutePrefixAt(str, j)

\* /(^|\s)(cd|cat|less|more|type)\s+([A-Za-z]:\\|\/)/i
AbsolutePathAccess(str) ==
    LET lowered == toLowerCase(str) IN
    \E i \in 1..Len(str) :
        /\ AtWordStart(str, i)
        /\ \E word \in ReadNavigate :
              /\ StartsAt(lowered, i, word)
              /\ \E j \in (i + Len(word) + 1)..Len(str) :
                    SpacesBetween(str, i + Len(word), j) /\ AbsolutePrefixAt(str, j)

\* the text of the '<unknown>' placeholder
Unknown == <<"<", "u", "n", "k", "n", "o", "w", "n", ">">>

\* results of evaluateCommand; cites is the text between the quotes of the
\* whitelist reason
Reject(reason, cites) == [ok |-> FALSE, reason |-> reason, cites |-> cites, warning |-> ""]
Accept(warning) == [ok |-> TRUE, reason |-> "", cites |-> <<>>, warning |-> warning]
NoVerdict == [ok |-> FALSE, reason |-> "not evaluated", cites |-> <<>>, warning |-> ""]

\* (variant: the allow-list is consulted before the strict-cwd rules)
evaluateCommandWhitelistFirst(cmd, pol) ==
    LET trimmed == trim(cmd)
        base == commandBase(trimmed)
    IN IF trimmed = <<>> THEN Reject("Empty command", <<>>)
       ELSE IF includes(trimmed, NUL) THEN Reject("Command contains null bytes", <<>>)
       ELSE IF pol.whitelist # {} /\ base \notin pol.whitelist
       THEN Reject("Command is not in whitelist", IF base # <<>> THEN base ELSE Unknown)
       ELSE IF pol.strictCwd /\ CdTraversal(trimmed)
       THEN Reject("strict-cwd blocks directory traversal with 'cd ..'", <<>>)
       ELSE IF pol.strictCwd /\ AbsolutePathAccess(trimmed)
       THEN Reject("strict-cwd blocks absolute-path access attempts", <<>>)
       ELSE IF pol.warnDangerous /\ DANGEROUS_PATTERN(trimmed)
       THEN Accept("Command contains chaining/substitution operators. Review carefully.")
       ELSE Accept("")

\* evaluateCommand(command, policy)
evaluateCommand(cmd, pol) ==
    LET trimmed == trim(cmd)
        base == commandBase(trimmed)
    IN IF trimmed = <<>> THEN Reject("Empty command", <<>>)
       ELSE IF includes(trimmed, NUL) THEN Reject("Command contains null bytes", <<>>)
       ELSE IF pol.strictCwd /\ CdTraversal(trimmed)
       THEN Reject("strict-cwd blocks directory traversal with 'cd ..'", <<>>)
       ELSE IF pol.strictCwd /\ AbsolutePathAccess(trimmed)
       THEN Reject("strict-cwd blocks absolute-path access attempts", <<>>)
       ELSE IF pol.whitelist # {} /\ base \notin pol.whitelist
       THEN Reject("Command is not in whitelist", IF base # <<>> THEN base ELSE Unknown)
       ELSE IF pol.warnDangerous /\ DANGEROUS_PATTERN(trimmed)
       THEN Accept("Command contains chaining/substitution operators. Review carefully.")
       ELSE Accept("")

\* the commands tried: an optional leading blank, then up to MaxWords words
\* joined by a blank or a semicolon
Words ==
    {<<"c", "d">>, <<"C", "a", "t">>, <<"l", "s">>, <<"L", "S">>, <<"r", "m">>, <<".", ".">>,
     <<"/", "e", "t", "c">>, <<"C", ":", "\\">>, <<NUL>>}
Seps == {<<" ">>, <<";">>}
Leads == {<<>>, <<" ">>}
RECURSIVE Tails(_)
Tails(n) ==
    IF n = 0 THEN {<<>>}
    ELSE {<<>>} \cup {sep \o word \o rest : sep \in Seps, word \in Words, rest \in Tails(n - 1)}
Commands ==
    Leads \cup {lead \o word \o rest : lead \in Leads, word \in Words,
                                       rest \in Tails(MaxWords - 1)}

\* buildHostPolicy(options): the whitelist entries are trimmed, lower-cased and
\* non-empty; warnDangerous is always true
Whitelists == {{}, {<<"l", "s">>, <<"p", "w", "d">>}}
Policies ==
    {[strictCwd |-> s, whitelist |-> w, warnDangerous |-> TRUE] :
        s \in BOOLEAN, w \in Whitelists}

\* no command has been handed to the policy
PolicyIdle ==
    /\ command = <<>>
    /\ policy = [strictCwd |-> FALSE, whitelist |-> {}, warnDangerous |-> TRUE]
    /\ verdict = NoVerdict

PolicyInit ==
    /\ command \in Commands
    /\ policy \in Policies
    /\ verdict = NoVerdict

\* const evaluation = evaluateCommand(command, policy)
Evaluate ==
    /\ verdict = NoVerdict
    /\ verdict' = evaluateCommand(command, policy)
    /\ UNCHANGED <<command, policy>>
    /\ UNCHANGED <<relayVars, tsVars, hostVars, shellVars>>

\* ================================================================ cli.js: host session
\* attachHostShell(ws, shellPlan, policy): one-shot commands run as child
\* processes, one interactive shell runs in a pty, and both are driven by the
\* frames the relay forwards.
MaxChildren == 2
ChildIds == 1..MaxChildren
NoChild == 0
NoProc == 0
\* JSON null in the place of an exit code (the child was ended by a signal)
Null == -1
\* errno of a spawn that found no binary
ENOENT == -2

\* a shell candidate: spec.shell, and whether the file system holds its binary
Candidate(shell, found) == [shell |-> shell, installed |-> found]

\* resolveShellPlan(override): candidates named by a path are kept unprobed, the
\* others are kept when `which` finds them, and when none is kept the whole
\* list is returned
ShellPlans ==
    {<<Candidate("bash", TRUE)>>,
     <<Candidate("/opt/zsh", FALSE), Candidate("bash", TRUE)>>,
     <<Candidate("/opt/zsh", FALSE), Candidate("sh", FALSE)>>}

\* requestIds the relay forwards, and the ones randomUUID() mints on the host
HostRequestIds == {"r1", "r2"}
randomUUID(n) == "uuid-" \o ToString(n)
RequestKeys == HostRequestIds \cup {randomUUID(c) : c \in ChildIds}

\* the policy the host was started with: an allow-list of ls and pwd
HostPolicy ==
    [strictCwd |-> FALSE, whitelist |-> {<<"l", "s">>, <<"p", "w", "d">>},
     warnDangerous |-> TRUE]
\* commands: accepted, accepted with a warning, rejected
HostCommands == {<<"l", "s">>, <<"l", "s", ";", "l", "s">>, <<"r", "m">>}

\* what the relay can deliver to the host: text that is not JSON, the JSON text
\* null, or an object with type, requestId, command, data, cols, rows, clientId
HostFrame(kind, type, requestId, cmd, data, cols, rows, clientId) ==
    [kind |-> kind, type |-> type, requestId |-> requestId, command |-> cmd, data |-> data,
     cols |-> cols, rows |-> rows, clientId |-> clientId]
HostNoFrame == HostFrame("none", "", "", <<>>, "", 0, 0, NoClientId)
CommandFrames ==
    {HostFrame("json", "command", id, cmd, "", 0, 0, 1) :
        id \in HostRequestIds, cmd \in HostCommands}
    \cup {HostFrame("json", "command", "", <<"l", "s">>, "", 0, 0, 1)}
CancelFrames ==
    {HostFrame("json", "cancel", id, <<>>, "", 0, 0, 1) : id \in HostRequestIds \cup {""}}
InputFrames == {HostFrame("json", "input", "", <<>>, "a", 0, 0, k) : k \in {1, 2}}
\* cols/rows 0 stands for a missing, zero or non-numeric value
ResizeFrames ==
    {HostFrame("json", "resize", "", <<>>, "", size[1], size[2], k) :
        size \in {<<0, 0>>, <<5, 2>>, <<80, 24>>}, k \in {1, 2}}
\* the relay's notices to the host about a client, which server.js sends with
\* the clientId; data holds the message text
NoticeFrames ==
    {HostFrame("json", "system", "", <<>>, message, 0, 0, k) :
        message \in {"client connected", "client disconnected"}, k \in {1, 2}}
OtherFrames ==
    {HostFrame("garbage", "", "", <<>>, "", 0, 0, NoClientId),
     HostFrame("null", "", "", <<>>, "", 0, 0, NoClientId),
     HostFrame("json", "system", "", <<>>, "a", 0, 0, NoClientId),
     HostFrame("json", "bogus", "", <<>>, "a", 0, 0, NoClientId)}

\* the payload objects attachHostShell builds: type, requestId, code, data or
\* message; none has a clientId property
HostPayload(type, requestId, code, data) ==
    [type |-> type, requestId |-> requestId, code |-> code, data |-> data,
     clientId |-> NoClientId]
HostSystem(message) == HostPayload("system", "", 0, message)
NoPayload == HostPayload("", "", 0, "")

\* effects of a callback
HostFx(kind, child, msg, sig, cols, rows) ==
    [kind |-> kind, child |-> child, msg |-> msg, sig |-> sig, cols |-> cols, rows |-> rows]
WsSend(msg) == HostFx("send", NoChild, msg, "", 0, 0)
\* spawn(spec.shell, args, ...) returned ChildProcess c
SpawnFx(c) == HostFx("spawn", c, NoPayload, "", 0, 0)
\* the operating system delivered sig to the process of c
SignalFx(c, sig) == HostFx("signal", c, NoPayload, sig, 0, 0)
PtySpawnFx == HostFx("pty.spawn", NoChild, NoPayload, "", 0, 0)
PtyWriteFx(data) == HostFx("pty.write", NoChild, HostPayload("", "", 0, data), "", 0, 0)
PtyResizeFx(cols, rows) == HostFx("pty.resize", NoChild, NoPayload, "", cols, rows)
PtyKillFx == HostFx("pty.kill", NoChild, NoPayload, "", 0, 0)
\* the host process ended while it held the pty: the terminal is hung up and
\* the shell gets SIGHUP, the signal proc.kill() sends
PtyHangupFx == HostFx("pty.hangup", NoChild, NoPayload, "", 0, 0)
\* the effect of the end of the host process on the interactive session
Hangup(session) == IF session.proc # NoProc THEN <<PtyHangupFx>> ELSE <<>>
ProcessExitFx(code) == HostFx("process.exit", NoChild, HostPayload("", "", code, ""), "", 0, 0)

\* a ChildProcess: state is
\*   running : the process lives
\*   failed  : spawn found no binary; the 'error' event is queued for the next tick
\*   errored : 'error' was emitted, 'close' is still to come
\*   exited  : the process ended and was reaped; stdio may still hold chunks
\*   closed  : 'close' was emitted
\* killed is child.killed, timer the pending setTimeout of killProcess
ChildRec(state, requestId, spec, killed, timer) ==
    [state |-> state, requestId |-> requestId, spec |-> spec, killed |-> killed,
     timer |-> timer]
NoChildRec == ChildRec("none", "", 0, FALSE, FALSE)
\* a ChildProcess nothing refers to any more: closed, without a pending timer
Collected == ChildRec("closed", "", 0, FALSE, FALSE)
Collect(ch, c) ==
    IF ch[c].state = "closed" /\ ~ch[c].timer THEN [ch EXCEPT ![c] = Collected] ELSE ch

\* the chunks a stream can hand over
Chunks == {"a", "b"}

HostEv(op, frame, child, stream, chunk) ==
    [op |-> op, frame |-> frame, child |-> child, stream |-> stream, chunk |-> chunk]
HostNoEvent == HostEv("idle", HostNoFrame, NoChild, "", "")
HostIdle == hostEvent = HostNoEvent
\* process.nextTick callbacks run before any other event is dispatched
NextTickPending == \E c \in ChildIds : children[c].state = "failed"
\* the host can be handed an event
Dispatching == HostIdle /\ exited = "no" /\ ~NextTickPending

\* safeSend(payload): ws.readyState === WebSocket.OPEN
hostSafeSend(ready, payload) == IF ready = "OPEN" THEN <<WsSend(payload)>> ELSE <<>>

\* (variant: process.kill(child.pid, sig): the signal is sent to the process
\* id, whether or not the process still exists, and child.killed is not set)
killByPid(ch, c, sig) == [children |-> ch, fx |-> <<SignalFx(c, sig)>>]

\* child.kill(sig): the signal goes to a process that lives, and then
\* child.killed is true; once the process was reaped (or never started) the
\* ChildProcess holds no handle, nothing is sent and kill returns false
kill(ch, c, sig) ==
    IF ch[c].state = "running"
    THEN [children |-> [ch EXCEPT ![c].killed = TRUE], fx |-> <<SignalFx(c, sig)>>]
    ELSE [children |-> ch, fx |-> <<>>]

\* killProcess(child, reason)
killProcess(ch, c) ==
    IF c = NoChild \/ ch[c].killed
    THEN [children |-> ch, fx |-> <<>>]
    ELSE LET sent == kill(ch, c, "SIGTERM")
         IN [children |-> [sent.children EXCEPT ![c].timer = TRUE], fx |-> sent.fx]

\* the callback of killProcess's setTimeout(..., 3000)
killTimeout(ch, c) ==
    LET fired == [ch EXCEPT ![c].timer = FALSE]
    IN IF ~fired[c].killed THEN kill(fired, c, "SIGKILL")
       ELSE [children |-> fired, fx |-> <<>>]

\* terminateAll(reason): killProcess and delete for every entry of the Map
RECURSIVE terminateEntries(_, _, _)
terminateEntries(keys, st, rc) ==
    IF keys = {} THEN st
    ELSE LET requestId == CHOOSE k \in keys : TRUE
             done == killProcess(st.children, rc[requestId])
         IN terminateEntries(keys \ {requestId},
                             [children |-> done.children, fx |-> st.fx \o done.fx], rc)
terminateAll(ch, rc) ==
    [children |-> terminateEntries({k \in RequestKeys : rc[k] # NoChild},
                                   [children |-> ch, fx |-> <<>>], rc).children,
     fx |-> terminateEntries({k \in RequestKeys : rc[k] # NoChild},
                             [children |-> ch, fx |-> <<>>], rc).fx,
     runningCommands |-> [k \in RequestKeys |-> NoChild]]

\* spawn(spec.shell, args, ...) throwing ENOENT: child_process.spawn returns a
\* ChildProcess also when the binary is missing, and reports ENOENT through
\* that object's 'error' event
spawnThrows(spec) == FALSE

\* trySpawn(shellPlan, command, cwd): the index of the candidate whose spawn
\* returned, 0 when "No usable shell found" is thrown
RECURSIVE trySpawnFrom(_, _)
trySpawnFrom(plan, i) ==
    IF i > Len(plan) THEN 0
    ELSE IF spawnThrows(plan[i]) THEN trySpawnFrom(plan, i + 1)
    ELSE i
trySpawn(plan) == trySpawnFrom(plan, 1)

\* Number(value) || fallback
NumberOr(value, fallback) == IF value = 0 THEN fallback ELSE value

HostInit ==
    /\ shellPlan \in ShellPlans
    /\ runningCommands = [k \in RequestKeys |-> NoChild]
    /\ children = [c \in ChildIds |-> NoChildRec]
    /\ nextChild = 1
    /\ ptySession = [proc |-> NoProc, starting |-> TRUE]
    /\ servedClient = NoClientId
    /\ readyState = "OPEN"
    /\ exited = "no"
    /\ hostEvent = HostNoEvent
    /\ hostOut = <<>>

\* no host session is attached
HostParked ==
    /\ shellPlan = <<Candidate("bash", TRUE)>>
    /\ runningCommands = [k \in RequestKeys |-> NoChild]
    /\ children = [c \in ChildIds |-> NoChildRec]
    /\ nextChild = 1
    /\ ptySession = [proc |-> NoProc, starting |-> FALSE]
    /\ servedClient = NoClientId
    /\ readyState = "OPEN"
    /\ exited = "no"
    /\ hostEvent = HostNoEvent
    /\ hostOut = <<>>

\* a callback that changes nothing and sends nothing
HostNothing ==
    /\ hostOut' = <<>>
    /\ UNCHANGED <<runningCommands, children, nextChild, ptySession, servedClient, exited>>

\* a callback that only produces effects
HostOnly(fx) ==
    /\ hostOut' = fx
    /\ UNCHANGED <<runningCommands, children, nextChild, ptySession, servedClient, exited>>

\* an exception no handler catches ends the process
HostCrash ==
    /\ hostOut' = Hangup(ptySession)
    /\ exited' = "crash"
    /\ ptySession' = [ptySession EXCEPT !.proc = NoProc]
    /\ UNCHANGED <<runningCommands, children, nextChild, servedClient>>

\* startPty(), from `await loadPty()` on: tty says whether stdin and stdout are
\* terminals and node-pty loaded, spawned whether pty.spawn returned for some
\* candidate
startPty(tty, spawned) ==
    /\ Dispatching
    /\ ptySession.starting
    /\ hostEvent' = HostEv("startPty", HostNoFrame, NoChild, "", "")
    /\ IF tty /\ ptySession.proc = NoProc /\ spawned
       THEN /\ ptySession' = [proc |-> 1, starting |-> FALSE]
            /\ hostOut' = <<PtySpawnFx>>
       ELSE /\ ptySession' = [ptySession EXCEPT !.starting = FALSE]
            /\ hostOut' = <<>>
    /\ UNCHANGED <<shellPlan, runningCommands, children, nextChild, servedClient, readyState,
                   exited>>
    /\ UNCHANGED <<relayVars, tsVars, cliVars, shellVars>>

\* (variant: a rejected command's exit is sent before its diagnostic)
executeCommandExitFirst(requestId, cmd) ==
    LET evaluation == evaluateCommand(cmd, policy)
        warned == IF evaluation.warning # ""
                  THEN hostSafeSend(readyState, HostSystem("[warning] " \o evaluation.warning))
                  ELSE <<>>
        spawned == trySpawn(shellPlan)
    IN IF ~evaluation.ok
       THEN HostOnly(hostSafeSend(readyState, HostPayload("exit", requestId, 126, ""))
                     \o hostSafeSend(readyState,
                            HostPayload("stderr", requestId, 0,
                                        "[policy] " \o evaluation.reason)))
       ELSE IF spawned = 0
       THEN HostOnly(warned
                     \o hostSafeSend(readyState,
                            HostPayload("stderr", requestId, 0, "No usable shell found"))
                     \o hostSafeSend(readyState, HostPayload("exit", requestId, 1, "")))
       ELSE /\ nextChild <= MaxChildren
            /\ children' = [children EXCEPT ![nextChild] =
                   ChildRec(IF shellPlan[spawned].installed THEN "running" ELSE "failed",
                            requestId, spawned, FALSE, FALSE)]
            /\ runningCommands' = [runningCommands EXCEPT ![requestId] = nextChild]
            /\ nextChild' = nextChild + 1
            /\ hostOut' = warned \o <<SpawnFx(nextChild)>>
            /\ UNCHANGED <<ptySession, servedClient, exited>>

\* executeCommand(requestId, command)
executeCommand(requestId, cmd) ==
    LET evaluation == evaluateCommand(cmd, policy)
        warned == IF evaluation.warning # ""
                  THEN hostSafeSend(readyState, HostSystem("[warning] " \o evaluation.warning))
                  ELSE <<>>
        spawned == trySpawn(shellPlan)
    IN IF ~evaluation.ok
       THEN HostOnly(hostSafeSend(readyState,
                         HostPayload("stderr", requestId, 0, "[policy] " \o evaluation.reason))
                     \o hostSafeSend(readyState, HostPayload("exit", requestId, 126, "")))
       ELSE IF spawned = 0
       THEN HostOnly(warned
                     \o hostSafeSend(readyState,
                            HostPayload("stderr", requestId, 0, "No usable shell found"))
                     \o hostSafeSend(readyState, HostPayload("exit", requestId, 1, "")))
       ELSE /\ nextChild <= MaxChildren
            /\ children' = [children EXCEPT ![nextChild] =
                   ChildRec(IF shellPlan[spawned].installed THEN "running" ELSE "failed",
                            requestId, spawned, FALSE, FALSE)]
            /\ runningCommands' = [runningCommands EXCEPT ![requestId] = nextChild]
            /\ nextChild' = nextChild + 1
            /\ hostOut' = warned \o <<SpawnFx(nextChild)>>
            /\ UNCHANGED <<ptySession, servedClient, exited>>

\* (variant: a cancel that names no running command is answered with an error)
cancelReportsUnknown(frame) ==
    LET requestId == frame.requestId
        active == IF requestId # "" /\ requestId \in RequestKeys
                  THEN runningCommands[requestId] ELSE NoChild
    IN IF active # NoChild
       THEN LET done == killProcess(children, active)
            IN /\ children' = done.children
               /\ runningCommands' = [runningCommands EXCEPT ![requestId] = NoChild]
               /\ hostOut' = done.fx
               /\ UNCHANGED <<nextChild, ptySession, servedClient, exited>>
       ELSE IF ptySession.proc # NoProc
       THEN HostOnly(<<PtyWriteFx("\\u0003")>>)
       ELSE HostOnly(hostSafeSend(readyState,
                                  HostPayload("error", requestId, 0, "unknown requestId")))

\* ws.on("message"), incoming.type === "cancel"
cancel(frame) ==
    LET requestId == frame.requestId
        active == IF requestId # "" /\ requestId \in RequestKeys
                  THEN runningCommands[requestId] ELSE NoChild
    IN IF active # NoChild
       THEN LET done == killProcess(children, active)
            IN /\ children' = done.children
               /\ runningCommands' = [runningCommands EXCEPT ![requestId] = NoChild]
               /\ hostOut' = done.fx
               /\ UNCHANGED <<nextChild, ptySession, servedClient, exited>>
       ELSE IF ptySession.proc # NoProc
       THEN HostOnly(<<PtyWriteFx("\\u0003")>>)
       ELSE HostNothing

\* the client an event applied to proc came from, for the first such event
Served(clientId) == IF servedClient = NoClientId THEN clientId ELSE servedClient

\* ws.on("message"), incoming.type === "input"
input(frame) ==
    IF ptySession.proc # NoProc
    THEN /\ hostOut' = <<PtyWriteFx(frame.data)>>
         /\ servedClient' = Served(frame.clientId)
         /\ UNCHANGED <<runningCommands, children, nextChild, ptySession, exited>>
    ELSE HostOnly(hostSafeSend(readyState,
                               HostSystem("interactive input unavailable in spawn mode")))

\* ws.on("message"), incoming.type === "resize"
resize(frame) ==
    IF ptySession.proc # NoProc
    THEN /\ hostOut' = <<PtyResizeFx(NumberOr(frame.cols, 120), NumberOr(frame.rows, 30))>>
         /\ servedClient' = Served(frame.clientId)
         /\ UNCHANGED <<runningCommands, children, nextChild, ptySession, exited>>
    ELSE HostNothing

\* ws.on("message", raw)
OnMessage(frame) ==
    /\ Dispatching
    /\ readyState = "OPEN"
    /\ hostEvent' = HostEv("message", frame, NoChild, "", "")
    /\ CASE frame.kind = "garbage" -> HostNothing
         [] frame.kind = "null" -> HostCrash
         [] frame.kind = "json" /\ frame.type = "system" -> HostNothing
         [] frame.kind = "json" /\ frame.type = "cancel" -> cancel(frame)
         [] frame.kind = "json" /\ frame.type = "input" -> input(frame)
         [] frame.kind = "json" /\ frame.type = "resize" -> resize(frame)
         [] frame.kind = "json" /\ frame.type = "command" ->
                executeCommand(IF frame.requestId # "" THEN frame.requestId
                               ELSE randomUUID(nextChild), frame.command)
         [] OTHER -> HostNothing
    /\ UNCHANGED <<shellPlan, readyState>>
    /\ UNCHANGED <<relayVars, tsVars, cliVars, shellVars>>

\* child.on("error", err), dispatched on the tick after the failed spawn
ChildError(c) ==
    /\ HostIdle /\ exited = "no"
    /\ children[c].state = "failed"
    /\ hostEvent' = HostEv("error", HostNoFrame, c, "", "")
    /\ runningCommands' = [runningCommands EXCEPT ![children[c].requestId] = NoChild]
    /\ children' = [children EXCEPT ![c].state = "errored"]
    /\ hostOut' =
           hostSafeSend(readyState,
               HostPayload("stderr", children[c].requestId, 0,
                           "Shell executable not found: "
                           \o shellPlan[children[c].spec].shell))
           \o hostSafeSend(readyState, HostPayload("exit", children[c].requestId, 1, ""))
    /\ UNCHANGED <<shellPlan, nextChild, ptySession, servedClient, readyState, exited>>
    /\ UNCHANGED <<relayVars, tsVars, cliVars, shellVars>>

\* child.stdout.on("data", chunk) and child.stderr.on("data", chunk): a stream
\* hands over its chunks one by one, in the order they were written, until it
\* ends
ChildData(c, stream, chunk) ==
    /\ Dispatching
    /\ children[c].state \in {"running", "exited"}
    /\ hostEvent' = HostEv("data", HostNoFrame, c, stream, chunk)
    /\ hostOut' = hostSafeSend(readyState, HostPayload(stream, children[c].requestId, 0, chunk))
    /\ UNCHANGED <<shellPlan, runningCommands, children, nextChild, ptySession, servedClient,
                   readyState, exited>>
    /\ UNCHANGED <<relayVars, tsVars, cliVars, shellVars>>

\* (variant: the exit message is sent when the process ends, not on 'close')
ChildExitReports(c) ==
    /\ Dispatching
    /\ children[c].state = "running"
    /\ children' = [children EXCEPT ![c].state = "exited"]
    /\ hostEvent' = HostEv("exit", HostNoFrame, c, "", "")
    /\ hostOut' = hostSafeSend(readyState, HostPayload("exit", children[c].requestId, 0, ""))
    /\ UNCHANGED <<shellPlan, runningCommands, nextChild, ptySession, servedClient, readyState,
                   exited>>
    /\ UNCHANGED <<relayVars, tsVars, cliVars, shellVars>>

\* the process of c ends (by itself or by a signal) and is reaped
ChildExit(c) ==
    /\ Dispatching
    /\ children[c].state = "running"
    /\ children' = [children EXCEPT ![c].state = "exited"]
    /\ UNCHANGED <<shellPlan, runningCommands, nextChild, ptySession, servedClient, readyState,
                   exited, hostEvent, hostOut>>
    /\ UNCHANGED <<relayVars, tsVars, cliVars, shellVars>>

\* (variant: 'close' reports the exit only for a command that is still listed
\* in runningCommands)
ChildCloseIfListed(c) ==
    /\ Dispatching
    /\ children[c].state \in {"exited", "errored"}
    /\ hostEvent' = HostEv("close", HostNoFrame, c, "", "")
    /\ runningCommands' = [runningCommands EXCEPT ![children[c].requestId] = NoChild]
    /\ children' = Collect([children EXCEPT ![c].state = "closed"], c)
    /\ hostOut' = IF runningCommands[children[c].requestId] = c
                  THEN hostSafeSend(readyState,
                           HostPayload("exit", children[c].requestId,
                                       IF children[c].state = "errored" THEN ENOENT
                                       ELSE IF children[c].killed THEN Null ELSE 0, ""))
                  ELSE <<>>
    /\ UNCHANGED <<shellPlan, nextChild, ptySession, servedClient, readyState, exited>>
    /\ UNCHANGED <<relayVars, tsVars, cliVars, shellVars>>

\* child.on("close", code): emitted once the process has ended and its stdio
\* streams have closed, and also after a failed spawn's 'error'
ChildClose(c) ==
    /\ Dispatching
    /\ children[c].state \in {"exited", "errored"}
    /\ hostEvent' = HostEv("close", HostNoFrame, c, "", "")
    /\ runningCommands' = [runningCommands EXCEPT ![children[c].requestId] = NoChild]
    /\ children' = Collect([children EXCEPT ![c].state = "closed"], c)
    /\ hostOut' = hostSafeSend(readyState,
           HostPayload("exit", children[c].requestId,
                       IF children[c].state = "errored" THEN ENOENT
                       ELSE IF children[c].killed THEN Null ELSE 0, ""))
    /\ UNCHANGED <<shellPlan, nextChild, ptySession, servedClient, readyState, exited>>
    /\ UNCHANGED <<relayVars, tsVars, cliVars, shellVars>>

\* the setTimeout callback of killProcess, 3000 ms after the SIGTERM
KillTimer(c) ==
    /\ Dispatching
    /\ children[c].timer
    /\ hostEvent' = HostEv("timeout", HostNoFrame, c, "", "")
    /\ children' = Collect(killTimeout(children, c).children, c)
    /\ hostOut' = killTimeout(children, c).fx
    /\ UNCHANGED <<shellPlan, runningCommands, nextChild, ptySession, servedClient, readyState,
                   exited>>
    /\ UNCHANGED <<relayVars, tsVars, cliVars, shellVars>>

\* proc.onData(data)
PtyData(chunk) ==
    /\ Dispatching
    /\ ptySession.proc # NoProc
    /\ hostEvent' = HostEv("pty.data", HostNoFrame, NoChild, "", chunk)
    /\ hostOut' = hostSafeSend(readyState, HostPayload("output", "", 0, chunk))
    /\ UNCHANGED <<shellPlan, runningCommands, children, nextChild, ptySession, servedClient,
                   readyState, exited>>
    /\ UNCHANGED <<relayVars, tsVars, cliVars, shellVars>>

\* proc.onExit({ exitCode, signal })
PtyExit ==
    /\ Dispatching
    /\ ptySession.proc # NoProc
    /\ hostEvent' = HostEv("pty.exit", HostNoFrame, NoChild, "", "")
    /\ hostOut' = hostSafeSend(readyState, HostSystem("interactive shell exited"))
    /\ ptySession' = [ptySession EXCEPT !.proc = NoProc]
    /\ servedClient' = NoClientId
    /\ UNCHANGED <<shellPlan, runningCommands, children, nextChild, readyState, exited>>
    /\ UNCHANGED <<relayVars, tsVars, cliVars, shellVars>>

\* the relay's close frame arrived: readyState is CLOSING until 'close' is emitted
WsClosing ==
    /\ Dispatching
    /\ readyState = "OPEN"
    /\ readyState' = "CLOSING"
    /\ UNCHANGED <<shellPlan, runningCommands, children, nextChild, ptySession, servedClient,
                   exited, hostEvent, hostOut>>
    /\ UNCHANGED <<relayVars, tsVars, cliVars, shellVars>>

\* the listeners of the socket's 'close' and 'error' events, in the order they
\* were registered: the host subcommand registers its own when it creates the
\* socket, attachHostShell registers its own when 'open' is emitted
CloseListeners == <<"host.close", "attach.close">>
ErrorListeners == <<"host.error", "attach.error">>

\* process.exit(code) in state st
processExit(st, code, how) ==
    [st EXCEPT !.exited = how,
               !.ptySession = [st.ptySession EXCEPT !.proc = NoProc],
               !.fx = st.fx \o <<ProcessExitFx(code)>> \o Hangup(st.ptySession)]

\* (variant: the listeners of the host subcommand only log and do not end the
\* process)
RunListenerNoExit(name, st) ==
    CASE name \in {"host.close", "host.error"} -> st
      [] name \in {"attach.close", "attach.error"} ->
             LET done == terminateAll(st.children, st.runningCommands)
             IN [children |-> done.children,
                 runningCommands |-> done.runningCommands,
                 ptySession |-> [st.ptySession EXCEPT !.proc = NoProc],
                 exited |-> st.exited,
                 fx |-> st.fx \o done.fx
                        \o (IF st.ptySession.proc # NoProc THEN <<PtyKillFx>> ELSE <<>>)]

\* one listener applied to st = [children, runningCommands, ptySession, exited, fx]
RunListener(name, st) ==
    CASE name = "host.close" -> processExit(st, 0, "exit0")
      [] name = "host.error" -> processExit(st, 1, "exit1")
      [] name \in {"attach.close", "attach.error"} ->
             LET done == terminateAll(st.children, st.runningCommands)
             IN [children |-> done.children,
                 runningCommands |-> done.runningCommands,
                 ptySession |-> [st.ptySession EXCEPT !.proc = NoProc],
                 exited |-> st.exited,
                 fx |-> st.fx \o done.fx
                        \o (IF st.ptySession.proc # NoProc THEN <<PtyKillFx>> ELSE <<>>)]

\* emitter.emit(name): the listeners run in order; process.exit() does not return
RECURSIVE Emit(_, _)
Emit(listeners, st) ==
    IF listeners = <<>> \/ st.exited # "no" THEN st
    ELSE Emit(Tail(listeners), RunListener(Head(listeners), st))

\* the socket emits 'close' (kind "close") or 'error' (kind "error")
WsEvent(kind) ==
    /\ Dispatching
    /\ hostEvent' = HostEv("ws." \o kind, HostNoFrame, NoChild, "", "")
    /\ LET st == Emit(IF kind = "close" THEN CloseListeners ELSE ErrorListeners,
                      [children |-> children, runningCommands |-> runningCommands,
                       ptySession |-> ptySession, exited |-> exited, fx |-> <<>>])
       IN /\ children' = st.children
          /\ runningCommands' = st.runningCommands
          /\ ptySession' = st.ptySession
          /\ exited' = st.exited
          /\ hostOut' = st.fx
    /\ readyState' = "CLOSED"
    /\ UNCHANGED <<shellPlan, nextChild, servedClient>>
    /\ UNCHANGED <<relayVars, tsVars, cliVars, shellVars>>

\* the callback has returned
HostFlush ==
    /\ ~HostIdle
    /\ hostEvent' = HostNoEvent
    /\ hostOut' = <<>>
    /\ UNCHANGED <<shellPlan, runningCommands, children, nextChild, ptySession, servedClient,
                   readyState, exited>>
    /\ UNCHANGED <<relayVars, tsVars, cliVars, shellVars>>

\* ================================================================ cli.js: resolveShellPlan
\* shell names are atoms; the tests the code makes on their text are sets
ShellNames == {"bash", "sh", "zsh", "powershell.exe", "pwsh", "cmd.exe", "cmd", "/opt/zsh"}
\* candidate.includes("/") || candidate.includes("\\")
HasSeparator(name) == name \in {"/opt/zsh"}
\* /cmd(\.exe)?$/i.test(shellOverride)
EndsInCmd(name) == name \in {"cmd.exe", "cmd"}
\* the --shell values tried; "" is no override
Overrides == {"", "bash", "sh", "zsh", "/opt/zsh", "pwsh", "cmd.exe"}
\* what `which` / `where` can find
Probed == {"bash", "sh", "zsh", "pwsh", "cmd.exe"}

\* [...new Set(candidates)]: the first occurrence of each name, in order
RECURSIVE UniqueFrom(_, _)
UniqueFrom(seq, seen) ==
    IF seq = <<>> THEN <<>>
    ELSE IF Head(seq) \in seen THEN UniqueFrom(Tail(seq), seen)
    ELSE <<Head(seq)>> \o UniqueFrom(Tail(seq), seen \cup {Head(seq)})
Unique(seq) == UniqueFrom(seq, {})

\* isShellAvailable(shellName): which / where exits with status 0
isShellAvailable(found, shellName) == shellName \in found

\* the candidates pushed before de-duplication
candidates(override, windows) ==
    IF override # ""
    THEN <<override>>
         \o (IF windows /\ ~EndsInCmd(override) THEN <<"cmd.exe", "cmd">> ELSE <<>>)
         \o (IF ~windows /\ override # "bash" THEN <<"bash", "sh">> ELSE <<>>)
    ELSE IF windows THEN <<"powershell.exe", "pwsh", "cmd.exe", "cmd">>
    ELSE <<"bash", "sh">>

\* resolveShellPlan(shellOverride): the names of the specs it returns
resolveShellPlan(override, windows, found) ==
    LET unique == Unique(candidates(override, windows))
        Kept(candidate) == HasSeparator(candidate) \/ isShellAvailable(found, candidate)
        available == SelectSeq(unique, Kept)
    IN IF Len(available) > 0 THEN available ELSE unique

ShellIdle ==
    /\ shellOverride = ""
    /\ IS_WINDOWS = FALSE
    /\ installed = {}
    /\ finalList = <<>>

ShellInit ==
    /\ shellOverride \in Overrides
    /\ IS_WINDOWS \in BOOLEAN
    /\ installed \in SUBSET Probed
    /\ finalList = <<>>

\* const shellPlan = resolveShellPlan(options.shell)
Resolve ==
    /\ finalList = <<>>
    /\ finalList' = resolveShellPlan(shellOverride, IS_WINDOWS, installed)
    /\ UNCHANGED <<shellOverride, IS_WINDOWS, installed>>
    /\ UNCHANGED <<relayVars, tsVars, cliVars, hostVars>>

\* ---------------------------------------------------------------- initial state
Init == RelayInit /\ TsInit /\ PolicyIdle /\ HostParked /\ ShellIdle

\* ---------------------------------------------------------------- specifications
\* Spec: registration, admission, routing and disconnects over the whole input
\* alphabet (the sweep's terminate() moves a socket out of OPEN as PeerClose does)
Next ==
    \/ \E hostId \in HostIds \cup {""}, username \in Usernames \cup {""},
          password \in Passwords \cup {""} : RegisterHost(hostId, username, password)
    \/ \E path \in Paths, hostId \in HostIds \cup {""}, username \in Usernames \cup {""},
          password \in Passwords \cup {""} : Connection(path, hostId, username, password)
    \/ \E s \in SocketIds, frame \in Frames : Message(s, frame)
    \/ \E s \in SocketIds : PeerClose(s)
    \/ \E s \in SocketIds : CloseEvent(s)
    \/ Flush

Spec == Init /\ [][Next]_vars

\* SpecLive: every handler together with the heartbeat sweep and the pong
\* handler, for one credential pair and a few frames
LiveFrames ==
    {[kind |-> "json", type |-> "input", clientId |-> NoClientId, data |-> "a"],
     [kind |-> "json", type |-> "output", clientId |-> 1, data |-> "a"]}

NextLive ==
    \/ \E hostId \in HostIds : RegisterHost(hostId, "alice", "pw1")
    \/ \E path \in {"/ws/host", "/ws/client"}, hostId \in HostIds :
          Connection(path, hostId, "alice", "pw1")
    \/ \E s \in SocketIds, frame \in LiveFrames : Message(s, frame)
    \/ \E s \in SocketIds : Pong(s)
    \/ \E s \in SocketIds : PeerClose(s)
    \/ \E s \in SocketIds : CloseEvent(s)
    \/ heartbeat
    \/ Flush

SpecLive == Init /\ [][NextLive]_vars

\* SpecTs: the relay of Server.ts, for one credential pair
NextTs ==
    \/ \E hostId \in HostIds : TsRegisterHost(hostId, "alice", "pw1")
    \/ \E path \in {"/ws/host", "/ws/client"}, hostId \in HostIds :
          TsConnection(path, hostId, "alice", "pw1")
    \/ \E s \in SocketIds, frame \in TsFrames : TsMessage(s, frame)
    \/ \E s \in SocketIds : TsPong(s)
    \/ \E s \in SocketIds : TsPeerClose(s)
    \/ \E s \in SocketIds : TsCloseEvent(s)
    \/ TsHeartbeat
    \/ TsFlush

SpecTs == Init /\ [][NextTs]_vars

\* SpecPolicy: evaluateCommand applied to each command under each policy
InitPolicy == RelayInit /\ TsInit /\ PolicyInit /\ HostParked /\ ShellIdle
NextPolicy == Evaluate

SpecPolicy == InitPolicy /\ [][NextPolicy]_vars

\* SpecHost: the host session running one-shot commands, with or without an
\* interactive shell
PolicyHost ==
    /\ command = <<>>
    /\ policy = HostPolicy
    /\ verdict = NoVerdict
InitHost == RelayInit /\ TsInit /\ PolicyHost /\ HostInit /\ ShellIdle
NextHost ==
    \/ \E tty \in BOOLEAN, spawned \in BOOLEAN : startPty(tty, spawned)
    \/ \E frame \in CommandFrames \cup CancelFrames \cup OtherFrames : OnMessage(frame)
    \/ \E c \in ChildIds : ChildError(c)
    \/ \E c \in ChildIds, stream \in {"stdout", "stderr"}, chunk \in Chunks :
          ChildData(c, stream, chunk)
    \/ \E c \in ChildIds : ChildExit(c)
    \/ \E c \in ChildIds : ChildClose(c)
    \/ \E c \in ChildIds : KillTimer(c)
    \/ PtyExit
    \/ WsClosing
    \/ \E kind \in {"close", "error"} : WsEvent(kind)
    \/ HostFlush

SpecHost == InitHost /\ [][NextHost]_vars

\* SpecPty: the host session driven by the frames of the interactive protocol
NextPty ==
    \/ \E tty \in BOOLEAN, spawned \in BOOLEAN : startPty(tty, spawned)
    \/ \E frame \in InputFrames \cup ResizeFrames \cup CancelFrames \cup NoticeFrames
                      \cup OtherFrames : OnMessage(frame)
    \/ \E chunk \in Chunks : PtyData(chunk)
    \/ PtyExit
    \/ WsClosing
    \/ \E kind \in {"close", "error"} : WsEvent(kind)
    \/ HostFlush

SpecPty == InitHost /\ [][NextPty]_vars

\* SpecHostLive: commands and cancels on a connection that stays open, with
\* the scheduling of the event loop: a callback returns, a nextTick callback
\* runs, and an event that is ready again and again is dispatched; every
\* process that was started ends
LiveHostFrames ==
    {HostFrame("json", "command", "r1", <<"l", "s">>, "", 0, 0, 1),
     HostFrame("json", "command", "r1", <<"r", "m">>, "", 0, 0, 1),
     HostFrame("json", "command", "", <<"l", "s">>, "", 0, 0, 1),
     HostFrame("json", "cancel", "r1", <<>>, "", 0, 0, 1),
     HostFrame("json", "cancel", "", <<>>, "", 0, 0, 1)}
NextHostLive ==
    \/ \E frame \in LiveHostFrames : OnMessage(frame)
    \/ \E c \in ChildIds : ChildError(c)
    \/ \E c \in ChildIds : ChildExit(c)
    \/ \E c \in ChildIds : ChildClose(c)
    \/ \E c \in ChildIds : KillTimer(c)
    \/ HostFlush
FairHost ==
    /\ WF_vars(HostFlush)
    /\ \A c \in ChildIds :
          /\ WF_vars(ChildError(c))
          /\ SF_vars(ChildExit(c))
          /\ SF_vars(ChildClose(c))

SpecHostLive == InitHost /\ [][NextHostLive]_vars /\ FairHost

\* SpecShell: resolveShellPlan applied to each override, platform and set of
\* installed shells
InitShell == RelayInit /\ TsInit /\ PolicyIdle /\ HostParked /\ ShellInit
NextShell == Resolve

SpecShell == InitShell /\ [][NextShell]_vars

\* ================================================================ properties
\* the hostId a connection was admitted for
HostIdOf(s) == records[sockets[s].rec].hostId
\* the admitted host connections of hostId h whose socket is open
LiveHostsOf(h) ==
    {s \in SocketIds : sockets[s].role = "host" /\ sockets[s].state = "open" /\ HostIdOf(s) = h}
\* the admitted client connections of hostId h whose socket is open
LiveClientsOf(h) ==
    {s \in SocketIds : sockets[s].role = "client" /\ sockets[s].state = "open" /\ HostIdOf(s) = h}
\* the hostId is registered with exactly these credentials
Registered(hostId, username, password) ==
    /\ hostId \in HostIds
    /\ registeredHosts[hostId] # NoRecord
    /\ records[registeredHosts[hostId]].username = username
    /\ records[registeredHosts[hostId]].password = password
ErrorTo(s, message) == SendFx(s, Msg("error", message, NoClientId, ""))

\* C1: for every hostId, at most one admitted host connection is open at any
\* instant, whatever registrations, connects, messages, disconnects and
\* heartbeat sweeps have happened.
C1_AtMostOneLiveHost == \A h \in HostIds : Cardinality(LiveHostsOf(h)) <= 1

\* a second host was admitted and the first one, evicted, is closing
C1_Witness ==
    \E s1, s2 \in SocketIds :
        /\ sockets[s1].role = "host" /\ sockets[s1].state = "closing"
        /\ sockets[s2].role = "host" /\ sockets[s2].state = "open"
        /\ HostIdOf(s1) = HostIdOf(s2)

\* C2: a client connection attempt for a hostId without a live host connection
\* is answered with an error ("host is offline" when its credentials are
\* right), closed, and adds no client-map entry; and whenever an entry is
\* added to a client map, a live host connection exists for that hostId.
C2_ClientNeedsLiveHost ==
    [][/\ (/\ event'.op = "connection"
           /\ event'.path = "/ws/client"
           /\ \A h \in HostIds : h = event'.hostId => LiveHostsOf(h) = {})
          => /\ \E m \in {"host is offline", "unknown hostId", "invalid credentials",
                          "missing credentials"} :
                  /\ out' = <<ErrorTo(event'.s, m), CloseFx(event'.s, 1008, m)>>
                  /\ Registered(event'.hostId, event'.username, event'.password)
                       => m = "host is offline"
             /\ sockets'[event'.s].role = "none"
             /\ sockets'[event'.s].state = "closing"
             /\ clientSockets' = clientSockets
       /\ \A h \in HostIds, id \in ClientIds :
             (clientSockets[h][id] = NoSocket /\ clientSockets'[h][id] # NoSocket)
             => LiveHostsOf(h) # {}
      ]_vars

\* a client with the right credentials was turned away because the host is offline
C2_Witness ==
    /\ event.op = "connection"
    /\ event.path = "/ws/client"
    /\ Registered(event.hostId, event.username, event.password)
    /\ out = <<ErrorTo(event.s, "host is offline"), CloseFx(event.s, 1008, "host is offline")>>

\* C3: a valid message of a host connection tagged with clientId k is written
\* to the connection of client k of the same hostId when that client is
\* live, and to no other connection in any case.
C3_HostMessageOnlyToItsClient ==
    (/\ event.op = "message"
     /\ event.frame.kind = "json"
     /\ event.frame.type \in {"output", "exit", "system"}
     /\ event.frame.clientId # NoClientId
     /\ sockets[event.s].role = "host")
    => LET k == event.frame.clientId
           h == HostIdOf(event.s)
       IN /\ \A i \in DOMAIN out :
                 /\ out[i].kind = "send"
                 /\ out[i].to \in LiveClientsOf(h)
                 /\ sockets[out[i].to].clientId = k
          /\ \A c \in LiveClientsOf(h) :
                 sockets[c].clientId = k
                 => out = <<SendFx(c, Msg(event.frame.type, "", k, event.frame.data))>>

\* two clients are live and the host's message went to the one it named
C3_Witness ==
    /\ event.op = "message"
    /\ sockets[event.s].role = "host"
    /\ sockets[event.s].state = "open"
    /\ Cardinality(LiveClientsOf(HostIdOf(event.s))) >= 2
    /\ Len(out) = 1
    /\ out[1].kind = "send"
    /\ out[1].msg.type = "output"
    /\ sockets[out[1].to].clientId = event.frame.clientId

\* a client's frame is one the relay routes: it parsed and its type is input or resize
ValidClientFrame ==
    /\ event.op = "message"
    /\ event.frame.kind = "json"
    /\ event.frame.type \in {"input", "resize"}
    /\ sockets[event.s].role = "client"

\* C4: whenever an admitted client sends a valid message while a live host
\* connection exists for its hostId, that message, annotated with the
\* sender's clientId, is written to that host connection.
C4_ClientMessageReachesCurrentHost ==
    ValidClientFrame
    => \A hs \in LiveHostsOf(HostIdOf(event.s)) :
          out = <<SendFx(hs, Msg(event.frame.type, "", sockets[event.s].clientId,
                                 event.frame.data))>>

\* C5: every frame the relay forwards for a client carries the clientId the
\* relay minted for that connection at admission, whatever clientId the
\* client put in its payload.
C5_ForwardedClientIdIsMinted ==
    (event.op = "message" /\ event.frame.kind = "json" /\ sockets[event.s].role = "client")
    => \A i \in DOMAIN out :
          (out[i].kind = "send" /\ out[i].to # event.s)
          => out[i].msg.clientId = sockets[event.s].clientId

\* a client claimed another clientId in its payload and its frame was forwarded
C5_Witness ==
    /\ ValidClientFrame
    /\ event.frame.clientId # NoClientId
    /\ event.frame.clientId # sockets[event.s].clientId
    /\ Len(out) = 1
    /\ out[1].kind = "send"
    /\ sockets[out[1].to].role = "host"
    /\ out[1].msg.type = event.frame.type

\* C6: a connection attempt whose hostId is not registered, or whose username
\* or password differ from the registered ones, gets an error frame and
\* close(1008) and nothing else happens: it is installed neither as host nor
\* as client, no other connection is written to or changed, and the
\* registry stays as it was.
C6_BadCredentialsRejected ==
    [][(/\ event'.op = "connection"
        /\ ~Registered(event'.hostId, event'.username, event'.password))
       => /\ \E m \in {"unknown hostId", "invalid credentials", "missing credentials",
                       "invalid websocket path"} :
                out' = <<ErrorTo(event'.s, m), CloseFx(event'.s, 1008, m)>>
          /\ sockets'[event'.s].role = "none"
          /\ sockets'[event'.s].state = "closing"
          /\ \A x \in SocketIds \ {event'.s} : sockets'[x] = sockets[x]
          /\ registeredHosts' = registeredHosts
          /\ records' = records
          /\ clientSockets' = clientSockets
      ]_vars

\* a wrong password was presented for a hostId whose host is connected
C6_Witness ==
    /\ event.op = "connection"
    /\ event.hostId \in HostIds
    /\ LiveHostsOf(event.hostId) # {}
    /\ event.username = records[registeredHosts[event.hostId]].username
    /\ event.password # records[registeredHosts[event.hostId]].password
    /\ out = <<ErrorTo(event.s, "invalid credentials"),
               CloseFx(event.s, 1008, "invalid credentials")>>

\* the frame is text JSON.parse rejects, or a parsed value whose type the
\* sender's role may not send
BadFrame(role, frame) ==
    \/ frame.kind = "garbage"
    \/ /\ frame.kind = "json"
       /\ \/ role = "client" /\ frame.type \notin {"input", "resize"}
          \/ role = "host" /\ frame.type \notin {"output", "exit", "system"}

\* C7: when an admitted, open connection sends a frame that does not parse or
\* whose type its role may not send, the relay writes one error frame to that
\* sender and nothing to anybody else, and leaves the registry and every
\* connection, the sender's included, as they were.
C7_BadFrameAnsweredNotForwarded ==
    [][(/\ event'.op = "message"
        /\ sockets[event'.s].state = "open"
        /\ BadFrame(sockets[event'.s].role, event'.frame))
       => /\ Len(out') = 1
          /\ out'[1].kind = "send"
          /\ out'[1].to = event'.s
          /\ out'[1].msg.type = "error"
          /\ sockets' = sockets
          /\ registeredHosts' = registeredHosts
          /\ records' = records
          /\ clientSockets' = clientSockets
      ]_vars

\* a client sent a command frame while its host was live and got the error back
C7_Witness ==
    /\ event.op = "message"
    /\ event.frame.type = "command"
    /\ sockets[event.s].role = "client"
    /\ sockets[event.s].state = "open"
    /\ LiveHostsOf(HostIdOf(event.s)) # {}
    /\ out = <<ErrorTo(event.s, "client can only send type=input|resize")>>

\* C8: no frame a connection sends ends the relay process or changes another
\* connection.
C8_NoFrameEndsTheRelay ==
    [][event'.op = "message"
       => /\ ~crashed'
          /\ \A x \in SocketIds \ {event'.s} : sockets'[x] = sockets[x]
      ]_vars

\* C9: a valid client message that finds no live host connection for its
\* hostId is answered to the sender with error "host disconnected", and it
\* is not kept: an input or resize frame is written to a socket only in the
\* turn in which a client sent it.
C9_UndeliverableNotQueued ==
    /\ (ValidClientFrame /\ LiveHostsOf(HostIdOf(event.s)) = {})
       => out = <<ErrorTo(event.s, "host disconnected")>>
    /\ \A i \in DOMAIN out :
          (out[i].kind = "send" /\ out[i].msg.type \in {"input", "resize"})
          => /\ ValidClientFrame
             /\ out[i].msg = Msg(event.frame.type, "", sockets[event.s].clientId,
                                 event.frame.data)

\* a client sent input after its host's socket had gone and was told so
C9_Witness ==
    /\ ValidClientFrame
    /\ LiveHostsOf(HostIdOf(event.s)) = {}
    /\ out = <<ErrorTo(event.s, "host disconnected")>>

\* C10: when a host connection is admitted while another host connection of
\* the hostId is live, the prior one is first written the system notice and
\* then closed, and the new one is the host socket of the hostId's record
\* and its only live host connection.
C10_SecondHostEvictsFirst ==
    [][\A old \in SocketIds :
          (/\ event'.op = "connection"
           /\ sockets'[event'.s].role = "host"
           /\ old \in LiveHostsOf(event'.hostId))
          => /\ Len(out') >= 2
             /\ out'[1] = SendFx(old, Msg("system",
                                 "another host session connected, closing this one",
                                 NoClientId, ""))
             /\ out'[2].kind = "close"
             /\ out'[2].to = old
             /\ sockets'[old].state = "closing"
             /\ sockets'[event'.s].state = "open"
             /\ records'[registeredHosts'[event'.hostId]].hostSocket = event'.s
      ]_vars

\* a second host was admitted: the first got the notice and the close
C10_Witness ==
    /\ event.op = "connection"
    /\ sockets[event.s].role = "host"
    /\ Len(out) >= 2
    /\ out[1].kind = "send"
    /\ out[1].msg.message = "another host session connected, closing this one"
    /\ out[2].kind = "close"
    /\ sockets[out[2].to].state = "closing"
    /\ records[registeredHosts[event.hostId]].hostSocket = event.s

\* how many times effect x occurs in the effect sequence seq
Times(seq, x) == Cardinality({i \in 1..Len(seq) : seq[i] = x})

\* C11: when a host connection is admitted, for every client of that hostId
\* that is live at that moment the new host gets exactly one system "client
\* connected" notice tagged with that clientId and that client gets "host is
\* online"; no such notice is produced for a client that is not live.
C11_HostAdmissionReplaysLiveClients ==
    [][(event'.op = "connection" /\ sockets'[event'.s].role = "host")
       => LET s == event'.s
              live == LiveClientsOf(event'.hostId)
          IN /\ \A c \in live :
                   /\ Times(out', SendFx(s, Msg("system", "client connected",
                                                sockets[c].clientId, ""))) = 1
                   /\ Times(out', SendFx(c, Msg("system", "host is online",
                                                sockets[c].clientId, ""))) = 1
             /\ \A i \in 1..Len(out') :
                   (/\ out'[i].kind = "send"
                    /\ out'[i].msg.message \in {"client connected", "host is online"})
                   => \E c \in live : /\ sockets[c].clientId = out'[i].msg.clientId
                                      /\ out'[i].to \in {s, c}
      ]_vars

\* a host was admitted while a client of its hostId was live, and was told of it
C11_Witness ==
    /\ event.op = "connection"
    /\ sockets[event.s].role = "host"
    /\ \E c \in LiveClientsOf(event.hostId) :
          /\ SendFx(event.s, Msg("system", "client connected", sockets[c].clientId, ""))
                \in {out[i] : i \in 1..Len(out)}
          /\ SendFx(c, Msg("system", "host is online", sockets[c].clientId, ""))
                \in {out[i] : i \in 1..Len(out)}

\* C12: a valid host message whose clientId names a client that is absent or
\* no longer live is written to nobody, gets no reply, and removes that
\* clientId's entry from the client map while every other entry stays as it is.
C12_StaleTargetPruned ==
    [][(/\ event'.op = "message"
        /\ ~crashed'
        /\ sockets[event'.s].role = "host"
        /\ event'.frame.kind = "json"
        /\ event'.frame.type \in HostAllowed
        /\ event'.frame.clientId # NoClientId
        /\ \A c \in LiveClientsOf(HostIdOf(event'.s)) :
              sockets[c].clientId # event'.frame.clientId)
       => /\ out' = <<>>
          /\ \A h \in HostIds, id \in ClientIds :
                clientSockets'[h][id] =
                   IF h = HostIdOf(event'.s) /\ id = event'.frame.clientId
                   THEN NoSocket ELSE clientSockets[h][id]
      ]_vars

\* a host addressed a client whose socket had gone but whose "close" event had
\* not run yet: nothing was written and the entry is gone
C12_Witness ==
    /\ event.op = "message"
    /\ sockets[event.s].role = "host"
    /\ event.frame.kind = "json"
    /\ event.frame.type \in HostAllowed
    /\ out = <<>>
    /\ \E c \in SocketIds :
          /\ sockets[c].role = "client"
          /\ sockets[c].state = "dead"
          /\ sockets[c].clientId = event.frame.clientId
          /\ HostIdOf(c) = HostIdOf(event.s)
          /\ clientSockets[HostIdOf(c)][sockets[c].clientId] = NoSocket

\* the set of effects of a callback
Effects(seq) == {seq[i] : i \in 1..Len(seq)}
\* the socket the registry's current record of hostId h holds as host connection
CurrentHostSocket(h) ==
    IF registeredHosts[h] = NoRecord THEN NoSocket ELSE records[registeredHosts[h]].hostSocket

\* C13: when the connection that is currently the host connection of a hostId
\* closes, the host reference of that hostId is cleared and every client of
\* the hostId that is live at that moment receives system "host disconnected".
C13_HostCloseClearsAndNotifies ==
    [][\A h \in HostIds :
          (/\ event'.op = "close"
           /\ sockets[event'.s].role = "host"
           /\ HostIdOf(event'.s) = h
           /\ CurrentHostSocket(h) = event'.s)
          => /\ CurrentHostSocket(h)' = NoSocket
             /\ \A c \in LiveClientsOf(h) :
                   SendFx(c, Msg("system", "host disconnected", sockets[c].clientId, ""))
                      \in Effects(out')
      ]_vars

\* C14: when an admitted client connection closes, its entry is removed from
\* the client map and, if a live host connection exists for that hostId, that
\* host receives system "client disconnected" tagged with the closing client's
\* clientId; after any sequence of registrations and host reconnects.
C14_ClientCloseNotifiesLiveHost ==
    [][(event'.op = "close" /\ sockets[event'.s].role = "client")
       => /\ clientSockets'[HostIdOf(event'.s)][sockets[event'.s].clientId] = NoSocket
          /\ \A host \in LiveHostsOf(HostIdOf(event'.s)) :
                SendFx(host, Msg("system", "client disconnected",
                                 sockets[event'.s].clientId, ""))
                   \in Effects(out')
      ]_vars

Registry ==
    [h \in HostIds |-> IF registeredHosts[h] = NoRecord THEN NoRec
                       ELSE records[registeredHosts[h]]]

\* C16: a registration for an existing hostId with a different username is
\* rejected and leaves the registry as it was; one with the same username
\* succeeds, replaces the stored password and keeps the host connection and
\* the client map, so that a repetition of it changes nothing any more.
C16_ReRegistration ==
    [][\A h \in HostIds :
          (/\ event'.op = "register"
           /\ event'.hostId = h
           /\ event'.username # ""
           /\ event'.password # ""
           /\ registeredHosts[h] # NoRecord)
          => IF Registry[h].username # event'.username
             THEN /\ out' = <<HttpFx(409, h)>>
                  /\ Registry' = Registry
                  /\ clientSockets' = clientSockets
             ELSE /\ out' = <<HttpFx(200, h)>>
                  /\ Registry' = [Registry EXCEPT ![h].password = event'.password]
                  /\ clientSockets' = clientSockets
                  /\ Registry[h].password = event'.password => Registry' = Registry
      ]_vars

\* a registration with the same username replaced the password while a host
\* and a client of the hostId were connected
C16_Witness ==
    /\ event.op = "register"
    /\ out = <<HttpFx(200, event.hostId)>>
    /\ \E h \in HostIds :
          /\ event.hostId = h
          /\ registeredHosts[h] = 2
          /\ records[1].password # records[2].password
          /\ IsOpen(sockets, records[2].hostSocket)
          /\ Keys(clientSockets[h]) # {}

\* ---------------------------------------------------------------- Server.ts properties
\* the payload fields of a frame or of a forwarded message
TsPayload(m) == [type |-> m.type, command |-> m.command, data |-> m.data]

\* C17: every message the relay forwards has the type and the payload fields
\* of the message the sender sent (routing metadata apart): a client's input or
\* resize message reaches the host as input or resize with its data, never as
\* a message of another type.
C17_ForwardedAsSent ==
    (/\ tsEvent.op = "message"
     /\ tsEvent.frame.kind = "json")
    => \A i \in 1..Len(tsOut) :
          (tsOut[i].kind = "send" /\ tsOut[i].to # tsEvent.s)
          => TsPayload(tsOut[i].msg) = TsPayload(tsEvent.frame)

\* ---------------------------------------------------------------- cli.js properties
Evaluated == verdict # NoVerdict
StrictReasons ==
    {"strict-cwd blocks directory traversal with 'cd ..'",
     "strict-cwd blocks absolute-path access attempts"}
\* the conditions of the reject rules, each taken alone
RuleEmpty == trim(command) = <<>>
RuleNull == includes(command, NUL)
RuleStrict == policy.strictCwd /\ (CdTraversal(trim(command)) \/ AbsolutePathAccess(trim(command)))
RuleAllowList == policy.whitelist # {} /\ toLowerCase(BaseRun(trim(command))) \notin policy.whitelist

\* C18: evaluateCommand returns the outcome of the first rule that matches, in
\* the order empty, null byte, strict-cwd, allow-list; a command with
\* chaining/substitution metacharacters that no reject rule matches is
\* accepted with a warning, and any other command is accepted without one.
C18_FirstMatchingRule ==
    Evaluated =>
       IF RuleEmpty THEN ~verdict.ok /\ verdict.reason = "Empty command"
       ELSE IF RuleNull THEN ~verdict.ok /\ verdict.reason = "Command contains null bytes"
       ELSE IF RuleStrict THEN ~verdict.ok /\ verdict.reason \in StrictReasons
       ELSE IF RuleAllowList
       THEN ~verdict.ok /\ verdict.reason = "Command is not in whitelist"
       ELSE IF DANGEROUS_PATTERN(trim(command))
       THEN verdict.ok /\ verdict.warning # "" /\ verdict.reason = ""
       ELSE verdict = Accept("")

\* a command that a strict-cwd rule and the allow-list rule both match was
\* rejected with the strict-cwd reason
C18_Witness ==
    /\ Evaluated
    /\ RuleStrict
    /\ RuleAllowList
    /\ verdict.reason \in StrictReasons

\* the maximal runs of str that hold no character of seps, in order
RECURSIVE Split(_, _)
Split(str, seps) ==
    IF str = <<>> THEN <<>>
    ELSE IF Head(str) \in seps THEN Split(Tail(str), seps)
    ELSE LET n == CHOOSE k \in 1..Len(str) :
                     /\ \A m \in 1..k : str[m] \notin seps
                     /\ (k = Len(str) \/ str[k + 1] \in seps)
         IN <<SubSeq(str, 1, n)>> \o Split(SubSeq(str, n + 1, Len(str)), seps)

\* the characters that end a simple command of a shell command line
ShellOperators == {";", "&", "|", "(", ")", BACKTICK}
\* the words of a text: its runs between whitespace
WordsOf(str) == Split(str, Whitespace)
\* a word that begins with "/" or with a drive prefix
IsAbsolutePath(word) == AbsolutePrefixAt(word, 1)

\* some simple command of cmd has the word cd followed by a word that begins with ".."
ContainsCdTraversal(cmd) ==
    LET simple == Split(cmd, ShellOperators) IN
    \E s \in 1..Len(simple) :
        LET w == WordsOf(simple[s]) IN
        \E k \in 1..(Len(w) - 1) : w[k] = <<"c", "d">> /\ StartsAt(w[k + 1], 1, <<".", ".">>)

\* some simple command of cmd names a read/navigate-class command and has an
\* absolute path among the arguments that follow it
PassesAbsolutePath(cmd) ==
    LET simple == Split(cmd, ShellOperators) IN
    \E s \in 1..Len(simple) :
        LET w == WordsOf(simple[s]) IN
        \E k \in 1..Len(w), m \in 1..Len(w) :
            /\ k < m
            /\ toLowerCase(w[k]) \in ReadNavigate
            /\ IsAbsolutePath(w[m])

\* the word cd is directly followed by a word that begins with ".."
CdThenDotDot(cmd) ==
    LET w == WordsOf(cmd) IN
    \E k \in 1..(Len(w) - 1) : w[k] = <<"c", "d">> /\ StartsAt(w[k + 1], 1, <<".", ".">>)

\* a read/navigate-class word is directly followed by an absolute path
ReadThenAbsolutePath(cmd) ==
    LET w == WordsOf(cmd) IN
    \E k \in 1..(Len(w) - 1) : toLowerCase(w[k]) \in ReadNavigate /\ IsAbsolutePath(w[k + 1])

\* the command ls is accepted under strictCwd when the allow-list admits it
LsAccepted ==
    (/\ trim(command) = <<"l", "s">>
     /\ (policy.whitelist = {} \/ <<"l", "s">> \in policy.whitelist))
    => verdict.ok

\* C19 as stated: with strictCwd=true every command containing a cd ..
\* traversal and every command passing an absolute path to a read/navigate
\* command is rejected while ls is accepted; with strictCwd=false neither
\* rule rejects any command.
C19_StrictCwdRejectsEvery ==
    Evaluated =>
       /\ (policy.strictCwd /\ (ContainsCdTraversal(command) \/ PassesAbsolutePath(command)))
          => ~verdict.ok
       /\ LsAccepted
       /\ ~policy.strictCwd => verdict.reason \notin StrictReasons

\* C19, amended: with strictCwd=true every command in which the word cd, at the
\* start or after whitespace, is directly followed by a word beginning with
\* "..", and every command in which cd, cat, less, more or type (in any letter
\* case) is directly followed by a word beginning with "/" or a drive prefix,
\* is rejected, while ls is accepted; with strictCwd=false neither rule
\* rejects any command.
C19_StrictCwdRejectsAdjacent ==
    Evaluated =>
       /\ (policy.strictCwd /\ (CdThenDotDot(command) \/ ReadThenAbsolutePath(command)))
          => ~verdict.ok
       /\ LsAccepted
       /\ ~policy.strictCwd => verdict.reason \notin StrictReasons

\* a read command in capitals with an absolute path was turned away by the
\* absolute-path rule
C19_Witness ==
    /\ Evaluated
    /\ policy.strictCwd
    /\ ReadThenAbsolutePath(command)
    /\ ~CdThenDotDot(command)
    /\ verdict.reason = "strict-cwd blocks absolute-path access attempts"

\* the leading token of the command: its leading run of letters, digits, ".",
\* "_" and "-" after trimming, in lower case (empty when there is none)
LeadingToken == toLowerCase(BaseRun(trim(command)))

\* C20: with a non-empty allow-list a command that no earlier rule rejects is
\* rejected exactly when its leading token, compared case-insensitively, is
\* not in the list, and the reason names that token (the placeholder
\* <unknown> when the command has no leading token); with an empty allow-list
\* no command is rejected by this rule.
C20_AllowListByLeadingToken ==
    Evaluated =>
       /\ (policy.whitelist # {} /\ ~RuleEmpty /\ ~RuleNull /\ ~RuleStrict)
          => /\ ~verdict.ok <=> LeadingToken \notin policy.whitelist
             /\ ~verdict.ok
                => /\ verdict.reason = "Command is not in whitelist"
                   /\ verdict.cites = IF LeadingToken # <<>> THEN LeadingToken ELSE Unknown
       /\ policy.whitelist = {} => verdict.reason # "Command is not in whitelist"

\* a command whose leading token is not in the allow-list was rejected with a
\* reason that names the token
C20_Witness ==
    /\ Evaluated
    /\ policy.whitelist # {}
    /\ LeadingToken = <<"r", "m">>
    /\ verdict.reason = "Command is not in whitelist"
    /\ verdict.cites = <<"r", "m">>

\* ================================================================ host session claims
\* the frame of the message the host is handling
HostFrameNow == hostEvent.frame
\* the requestId executeCommand is called with for a command frame
CommandRequestId(frame, next) ==
    IF frame.requestId # "" THEN frame.requestId ELSE randomUUID(next)
\* the host is handling a command frame
HandlingCommand == hostEvent.op = "message" /\ HostFrameNow.type = "command"
\* the payloads the callback sent to the relay, in order
RECURSIVE Sent(_)
Sent(fx) ==
    IF fx = <<>> THEN <<>>
    ELSE IF Head(fx).kind = "send" THEN <<Head(fx).msg>> \o Sent(Tail(fx))
    ELSE Sent(Tail(fx))

\* C21: a command the policy rejects is answered by exactly a stderr message
\* and then an exit message with code 126, both for its requestId; no process
\* is spawned, the running-command map and the children are as before, and the
\* host process goes on with an open socket
C21_PolicyRejection ==
    [][(HandlingCommand' /\ ~evaluateCommand(HostFrameNow'.command, policy).ok)
       => /\ Len(hostOut') = 2
          /\ Sent(hostOut')[1].type = "stderr"
          /\ Sent(hostOut')[1].requestId = CommandRequestId(HostFrameNow', nextChild)
          /\ Sent(hostOut')[2] =
                 HostPayload("exit", CommandRequestId(HostFrameNow', nextChild), 126, "")
          /\ \A c \in ChildIds : SpawnFx(c) \notin Effects(hostOut')
          /\ UNCHANGED <<runningCommands, children, nextChild>>
          /\ exited' = "no" /\ readyState' = "OPEN"]_vars

\* a rejected command arrived while another command was running
C21_Witness ==
    /\ HandlingCommand
    /\ HostFrameNow.command = <<"r", "m">>
    /\ Sent(hostOut)[2].code = 126
    /\ \E k \in RequestKeys : runningCommands[k] # NoChild

\* the first candidate of the plan whose binary exists, 0 when there is none
FirstInstalled(plan) ==
    IF \E i \in 1..Len(plan) : plan[i].installed
    THEN CHOOSE i \in 1..Len(plan) :
             plan[i].installed /\ \A j \in 1..(i - 1) : ~plan[j].installed
    ELSE 0
\* the host is handling a command frame the policy accepts
HandlingAccepted == HandlingCommand /\ evaluateCommand(HostFrameNow.command, policy).ok

\* C22: an accepted command runs under the first candidate of the plan whose
\* binary exists; when no candidate's binary exists the command is answered by
\* a stderr diagnostic and an exit with code 1, no running-command entry is
\* left for it, and the host goes on
C22_FirstCandidateThatSpawns ==
    [][HandlingAccepted'
       => LET requestId == CommandRequestId(HostFrameNow', nextChild)
              first == FirstInstalled(shellPlan)
          IN IF first # 0
             THEN /\ SpawnFx(nextChild) \in Effects(hostOut')
                  /\ children'[nextChild].spec = first
                  /\ children'[nextChild].state = "running"
             ELSE /\ \E i \in 1..Len(Sent(hostOut')) :
                        /\ Sent(hostOut')[i].type = "stderr"
                        /\ Sent(hostOut')[i].requestId = requestId
                  /\ Sent(hostOut')[Len(Sent(hostOut'))] =
                         HostPayload("exit", requestId, 1, "")
                  /\ runningCommands'[requestId] = NoChild
                  /\ exited' = "no"]_vars

\* the callback sent an exit message
SentExit(fx) == \E i \in 1..Len(Sent(fx)) : Sent(fx)[i].type = "exit"
\* the exit message of the command of child c has gone out
ExitEmitted(ch, c) == ch[c].state \in {"errored", "closed"}

HandlingCancel ==
    /\ hostEvent.op = "message"
    /\ HostFrameNow.type = "cancel"
    /\ HostFrameNow.requestId \in RequestKeys

\* C24: a cancel for a requestId whose process is still running sends that
\* process SIGTERM in the same callback, and when the timer set by that cancel
\* fires while the process is still running, SIGKILL is sent to it
C24_TermThenKill ==
    [][\A c \in ChildIds :
         /\ (HandlingCancel' /\ runningCommands[HostFrameNow'.requestId] = c
             /\ children[c].state = "running")
            => SignalFx(c, "SIGTERM") \in Effects(hostOut')
         /\ (hostEvent'.op = "timeout" /\ hostEvent'.child = c
             /\ children[c].state = "running")
            => SignalFx(c, "SIGKILL") \in Effects(hostOut')]_vars

\* the host is handling a cancel frame
HandlingAnyCancel == hostEvent.op = "message" /\ HostFrameNow.type = "cancel"
\* the running command a cancel frame names, if any
Named(frame, rc) ==
    IF frame.requestId \in RequestKeys THEN rc[frame.requestId] ELSE NoChild

\* C25: a cancel whose requestId names no running command leaves the
\* running-command map, the children, the interactive session and the host
\* process as they were and sends nothing to the relay; it writes the
\* interrupt byte to the interactive shell when there is one, and has no
\* effect at all otherwise
C25_UnmatchedCancel ==
    [][(HandlingAnyCancel' /\ Named(HostFrameNow', runningCommands) = NoChild)
       => /\ UNCHANGED <<runningCommands, children, nextChild, ptySession, exited,
                         readyState>>
          /\ hostOut' = IF ptySession.proc # NoProc THEN <<PtyWriteFx("\\u0003")>>
                        ELSE <<>>]_vars

\* a cancel for r2 while only r1 runs and an interactive shell is up
C25_Witness ==
    /\ HandlingAnyCancel
    /\ HostFrameNow.requestId = "r2"
    /\ runningCommands["r1"] # NoChild
    /\ children[runningCommands["r1"]].state = "running"
    /\ runningCommands["r2"] = NoChild
    /\ ptySession.proc # NoProc
    /\ hostOut = <<PtyWriteFx("\\u0003")>>

\* the host's relay connection has just emitted 'close' or 'error'
ConnectionLost == hostEvent.op \in {"ws.close", "ws.error"}

\* C26: when the host's relay connection closes or errors, the process of
\* every running-command entry that is still running is sent SIGTERM, and the
\* running-command map is empty afterwards
C26_CloseTerminatesAll ==
    [][ConnectionLost'
       => /\ \A k \in RequestKeys :
                (runningCommands[k] # NoChild
                 /\ children[runningCommands[k]].state = "running")
                => SignalFx(runningCommands[k], "SIGTERM") \in Effects(hostOut')
          /\ \A k \in RequestKeys : runningCommands'[k] = NoChild]_vars

\* the host has just applied an input or resize frame to the interactive shell
AppliedToShell ==
    /\ hostEvent.op = "message"
    /\ HostFrameNow.type \in {"input", "resize"}
    /\ \E i \in 1..Len(hostOut) : hostOut[i].kind \in {"pty.write", "pty.resize"}

\* C27: an interactive shell serves one client: the input and resize events
\* applied to it all come from the client whose event reached it first
C27_SessionPerClient == AppliedToShell => HostFrameNow.clientId = servedClient

\* C28: every output message the host sends for the interactive shell carries
\* the clientId of a client
C28_OutputTagged ==
    \A i \in 1..Len(Sent(hostOut)) :
        Sent(hostOut)[i].type = "output" => Sent(hostOut)[i].clientId # NoClientId

\* C29: every resize applied to the interactive shell has at least 20 columns
\* and at least 5 rows
C29_ResizeFloor ==
    \A i \in 1..Len(hostOut) :
        hostOut[i].kind = "pty.resize" => hostOut[i].cols >= 20 /\ hostOut[i].rows >= 5

\* the timer of killProcess has just fired for a child
TimerFired == hostEvent.op = "timeout"

\* C30: when the timer of killProcess fires for a process that has already
\* ended, the callback has no effect, and SIGKILL is never sent to a process
\* that has ended
C30_NoKillAfterExit ==
    [][/\ (TimerFired' /\ children[hostEvent'.child].state # "running") => hostOut' = <<>>
       /\ \A c \in ChildIds :
             SignalFx(c, "SIGKILL") \in Effects(hostOut') => children[c].state = "running"]_vars

\* the timer fired for a process that had ended before the cancel arrived, so
\* that child.killed was still false and the callback called child.kill
C30_Witness ==
    /\ TimerFired
    /\ children[hostEvent.child].state = "exited"
    /\ ~children[hostEvent.child].killed
    /\ ~children[hostEvent.child].timer
    /\ hostOut = <<>>

\* C31: once the exit message of a command has gone out, no later command
\* frame with that command's requestId starts a process
C31_TerminalRequestIdNotReused ==
    [][HandlingCommand'
       => \A c \in ChildIds :
             (ExitEmitted(children, c)
              /\ children[c].requestId = CommandRequestId(HostFrameNow', nextChild))
             => ~(/\ SpawnFx(nextChild) \in Effects(hostOut')
                  /\ children'[nextChild].state = "running")]_vars

\* the host is handling the relay's notice that a client has disconnected
HandlingClientGone ==
    /\ hostEvent.op = "message"
    /\ HostFrameNow.type = "system"
    /\ HostFrameNow.data = "client disconnected"

\* C32: on the relay's "client disconnected" notice for the client the
\* interactive shell serves, the shell is killed and the session dropped; on
\* the notice for another client the session is left as it is
C32_DisconnectKillsSession ==
    [][(HandlingClientGone' /\ ptySession.proc # NoProc)
       => IF HostFrameNow'.clientId = servedClient
          THEN PtyKillFx \in Effects(hostOut') /\ ptySession'.proc = NoProc
          ELSE ptySession' = ptySession]_vars

\* the interactive shell has just exited
ShellExited == hostEvent.op = "pty.exit"

\* C33: when the interactive shell exits the host sends an exit message that
\* carries a clientId, and the session is dropped
C33_ShellExitReported ==
    ShellExited
    => /\ \E i \in 1..Len(Sent(hostOut)) :
             Sent(hostOut)[i].type = "exit" /\ Sent(hostOut)[i].clientId # NoClientId
       /\ ptySession.proc = NoProc

\* C34: when the host's relay connection closes or errors, an interactive
\* shell that is up is ended in that step, and from then on the session holds
\* no shell, whether the start of the shell had completed before the
\* connection was lost or not
C34_NoSessionAfterClose ==
    [][/\ (ConnectionLost' /\ ptySession.proc # NoProc)
          => (PtyKillFx \in Effects(hostOut') \/ PtyHangupFx \in Effects(hostOut'))
       /\ readyState' = "CLOSED" => ptySession'.proc = NoProc]_vars

\* the connection was lost while a shell was up
C34_Witness ==
    /\ ConnectionLost
    /\ readyState = "CLOSED"
    /\ PtyHangupFx \in Effects(hostOut)
    /\ ptySession.proc = NoProc

\* ================================================================ resolveShellPlan claims
\* the defaults of the platform: what resolveShellPlan tries without an override
PlatformDefaults(windows) ==
    IF windows THEN <<"powershell.exe", "pwsh", "cmd.exe", "cmd">> ELSE <<"bash", "sh">>
\* the override, if any, followed by the platform defaults, without repeats
OverrideThenDefaults(override, windows) ==
    Unique((IF override # "" THEN <<override>> ELSE <<>>) \o PlatformDefaults(windows))
\* the members of seq that resolve on the system: a name `which` finds, or a path
ThoseThatResolve(seq, found) ==
    LET Resolves(name) == HasSeparator(name) \/ name \in found
    IN SelectSeq(seq, Resolves)

\* C35: resolveShellPlan returns a non-empty list: the override (if any)
\* followed by the platform defaults, reduced to the names that resolve, or
\* that whole list in the same order when none resolves
C35_OverrideThenDefaults ==
    [][LET all == OverrideThenDefaults(shellOverride, IS_WINDOWS)
           resolving == ThoseThatResolve(all, installed)
       IN /\ finalList' # <<>>
          /\ finalList' = IF resolving # <<>> THEN resolving ELSE all]_vars

\* ================================================================ superseded host claims
\* a "host disconnected" notice among the effects of a callback
SaysHostDisconnected(fx) ==
    \E i \in 1..Len(fx) :
        fx[i].kind = "send" /\ fx[i].msg.type = "system" /\ fx[i].msg.message = "host disconnected"
\* host connection s has been superseded: the current record of its hostId
\* holds another, newer, open connection
SupersededHost(s) ==
    /\ sockets[s].role = "host"
    /\ CurrentHostSocket(HostIdOf(s)) # s
    /\ IsOpen(sockets, CurrentHostSocket(HostIdOf(s)))

\* C36: when the close event of a superseded host connection fires, the host
\* reference of the newer connection is kept and no client is sent "host
\* disconnected"
C36_SupersededCloseIsSilent ==
    [][\A h \in HostIds :
          (event'.op = "close" /\ SupersededHost(event'.s) /\ HostIdOf(event'.s) = h)
          => /\ CurrentHostSocket(h)' = CurrentHostSocket(h)
             /\ ~SaysHostDisconnected(out')]_vars

\* ================================================================ one-shot process claims
\* C37: a command is answered with at most one exit message: a callback of a
\* process sends exit only if none was sent for that process before
C37_AtMostOneExit ==
    [][\A c \in ChildIds :
          (hostEvent'.child = c /\ SentExit(hostOut')) => ~ExitEmitted(children, c)]_vars

\* C38: every one-shot process that is running and was not sent a signal is
\* the value of some entry of runningCommands
C38_RunningIsReachable ==
    \A c \in ChildIds :
        (children[c].state = "running" /\ ~children[c].killed)
        => \E k \in RequestKeys : runningCommands[k] = c

\* an exit message with requestId k among the effects of a callback
ExitFor(fx, k) ==
    \E i \in 1..Len(Sent(fx)) : Sent(fx)[i].type = "exit" /\ Sent(fx)[i].requestId = k

\* C39: on a connection that stays open, every command is answered with an
\* exit for its requestId: at once when no process is started for it, and
\* otherwise by a callback of its process, cancelled or not
C39_EveryCommandAnswered ==
    /\ []((HandlingCommand /\ \A c \in ChildIds : SpawnFx(c) \notin Effects(hostOut))
          => ExitFor(hostOut, CommandRequestId(HostFrameNow, nextChild)))
    /\ [][\A c \in ChildIds :
             (hostEvent'.child = c /\ SentExit(hostOut'))
             => ExitFor(hostOut', children[c].requestId)]_vars
    /\ \A c \in ChildIds :
          children[c].state \in {"running", "failed"}
          ~> (hostEvent.child = c /\ SentExit(hostOut))
\* the exit of a cancelled command, sent by the 'close' of its process
C39_Witness ==
    \E c \in ChildIds :
        /\ hostEvent.op = "close" /\ hostEvent.child = c
        /\ children[c].killed
        /\ runningCommands[children[c].requestId] # c
        /\ ExitFor(hostOut, children[c].requestId)

\* ================================================================ handler record claims
\* C40: the host connection held by the record an admitted client's handlers
\* captured is the one held by the registry's current record of its hostId
C40_HandlersUseCurrentHost ==
    \A s \in SocketIds :
        (sockets[s].role = "client" /\ sockets[s].state = "open")
        => records[sockets[s].rec].hostSocket = CurrentHostSocket(HostIdOf(s))
====
